---- MODULE Spec2Model ----
(***************************************************************************)
(* Model of the text-matching engine of loci                               *)
(* (src/loci/app/api/verify-address/utilityBillOCR.ts, class               *)
(* UtilityBillOCR).                                                        *)
(*                                                                         *)
(* Strings are sequences of one-character strings.  JavaScript numbers    *)
(* that the engine computes by division (similarities, block score,       *)
(* address score) are modelled as exact non-negative rationals <<n, d>>   *)
(* in lowest terms; <<0, 0>> stands for NaN (a division by zero).         *)
(***************************************************************************)
EXTENDS Integers, Sequences, FiniteSets, TLC

\* ------------------------------------------------------------------ characters

LowerLetters ==
    {"a","b","c","d","e","f","g","h","i","j","k","l","m",
     "n","o","p","q","r","s","t","u","v","w","x","y","z"}

Digits == {"0","1","2","3","4","5","6","7","8","9"}

\* String.prototype.toLowerCase on the characters the model uses.
LowerMap ==
    ("A" :> "a") @@ ("B" :> "b") @@ ("C" :> "c") @@ ("D" :> "d") @@
    ("E" :> "e") @@ ("F" :> "f") @@ ("G" :> "g") @@ ("H" :> "h") @@
    ("I" :> "i") @@ ("J" :> "j") @@ ("K" :> "k") @@ ("L" :> "l") @@
    ("M" :> "m") @@ ("N" :> "n") @@ ("O" :> "o") @@ ("P" :> "p") @@
    ("Q" :> "q") @@ ("R" :> "r") @@ ("S" :> "s") @@ ("T" :> "t") @@
    ("U" :> "u") @@ ("V" :> "v") @@ ("W" :> "w") @@ ("X" :> "x") @@
    ("Y" :> "y") @@ ("Z" :> "z")

UpperLetters == DOMAIN LowerMap

\* The regular-expression class \w (ASCII letters, digits and underscore).
WordChars == LowerLetters \cup UpperLetters \cup Digits \cup {"_"}

\* The regular-expression class \s restricted to the characters the model uses.
SpaceChars == {" ", "\n", "\t"}

IsWordChar(c) == c \in WordChars

IsSpace(c) == c \in SpaceChars

ToLowerChar(c) == IF c \in UpperLetters THEN LowerMap[c] ELSE c

toLowerCase(s) == [i \in 1..Len(s) |-> ToLowerChar(s[i])]

\* ------------------------------------------------------------------ strings

\* The positions 1..n in increasing order.
Indices(n) == [i \in 1..n |-> i]

\* String.prototype.includes at position i: needle occurs in hay starting at i.
OccursAt(hay, needle, i) ==
    /\ i + Len(needle) - 1 <= Len(hay)
    /\ \A k \in 1..Len(needle) : hay[i + k - 1] = needle[k]

includes(hay, needle) ==
    \E i \in 1..(Len(hay) - Len(needle) + 1) : OccursAt(hay, needle, i)

RECURSIVE ConcatRange(_, _, _)
ConcatRange(ws, lo, hi) ==
    IF lo > hi THEN <<>>
    ELSE IF lo = hi THEN ws[lo]
    ELSE LET mid == (lo + hi) \div 2
         IN  ConcatRange(ws, lo, mid) \o ConcatRange(ws, mid + 1, hi)

\* Array.prototype.join('') of a list of strings (also: push(...list)).
Concat(ws) == ConcatRange(ws, 1, Len(ws))

\* Array.prototype.join(' ').
JoinSpace(ws) ==
    Concat([k \in 1..Len(ws) |-> IF k = 1 THEN ws[k] ELSE <<" ">> \o ws[k]])

\* s.split(/[seps]+/) : the pieces of s between maximal runs of characters of
\* seps; a separator run at the start or the end yields an empty piece there,
\* and the empty string yields one empty piece.
Split(s, seps) ==
    LET n == Len(s)
        starts == SelectSeq(Indices(n),
                            LAMBDA i : s[i] \notin seps /\ (i = 1 \/ s[i - 1] \in seps))
        ends == SelectSeq(Indices(n),
                          LAMBDA i : s[i] \notin seps /\ (i = n \/ s[i + 1] \in seps))
        pieces == [k \in 1..Len(starts) |-> SubSeq(s, starts[k], ends[k])]
    IN  (IF n = 0 \/ s[1] \in seps THEN << <<>> >> ELSE <<>>)
            \o pieces
            \o (IF n > 0 /\ s[n] \in seps THEN << <<>> >> ELSE <<>>)

\* [...new Set(blocks)] : first occurrences, in insertion order.
Dedupe(ws) ==
    LET keep == SelectSeq(Indices(Len(ws)),
                          LAMBDA k : \A j \in 1..(k - 1) : ws[j] # ws[k])
    IN  [m \in 1..Len(keep) |-> ws[keep[m]]]

\* String.prototype.trim.
trim(s) ==
    LET solid == SelectSeq(Indices(Len(s)), LAMBDA i : ~IsSpace(s[i]))
    IN  IF solid = <<>> THEN <<>> ELSE SubSeq(s, solid[1], solid[Len(solid)])

\* .replace(/\s+/g, ' ')
CollapseSpaces(s) ==
    LET keep == SelectSeq(Indices(Len(s)),
                          LAMBDA i : ~IsSpace(s[i]) \/ i = 1 \/ ~IsSpace(s[i - 1]))
    IN  [k \in 1..Len(keep) |-> IF IsSpace(s[keep[k]]) THEN " " ELSE s[keep[k]]]

\* .replace(/\s+/g, '')
StripSpaces(s) == SelectSeq(s, LAMBDA c : ~IsSpace(c))

\* ------------------------------------------------------------------ string literals

W_peninsula == <<"p","e","n","i","n","s","u","l","a">>

W_peninsular == <<"p","e","n","i","n","s","u","l","a","r">>

W_residential == <<"r","e","s","i","d","e","n","t","i","a","l">>

W_scheme == <<"s","c","h","e","m","e">>

W_scem == <<"s","c","e","m">>

W_sceme == <<"s","c","e","m","e">>

W_schem == <<"s","c","h","e","m">>

W_lekki == <<"l","e","k","k","i">>

W_etiosa == <<"e","t","i","o","s","a">>

W_etios == <<"e","t","i","o","s">>

W_etioa == <<"e","t","i","o","a">>

W_etioaa == <<"e","t","i","o","a","a">>

W_lagos == <<"l","a","g","o","s">>

W_lagus == <<"l","a","g","u","s">>

W_isula == <<"i","s","u","l","a">>

W_eti == <<"e","t","i">>

W_osa == <<"o","s","a">>

W_state == <<"s","t","a","t","e">>

W_victoria == <<"v","i","c","t","o","r","i","a">>

W_island == <<"i","s","l","a","n","d">>

W_port == <<"p","o","r","t">>

W_harcourt == <<"h","a","r","c","o","u","r","t">>

W_estate == <<"e","s","t","a","t","e">>

W_close == <<"c","l","o","s","e">>

W_street == <<"s","t","r","e","e","t">>

W_road == <<"r","o","a","d">>

W_avenue == <<"a","v","e","n","u","e">>

W_plot == <<"p","l","o","t">>

W_block == <<"b","l","o","c","k">>

W_phase == <<"p","h","a","s","e">>

W_pe == <<"p","e">>

W_pennisula == <<"p","e","n","n","i","s","u","l","a">>

W_penninsula == <<"p","e","n","n","i","n","s","u","l","a">>

W_residental == <<"r","e","s","i","d","e","n","t","a","l">>

W_residencial == <<"r","e","s","i","d","e","n","c","i","a","l">>

W_resedential == <<"r","e","s","e","d","e","n","t","i","a","l">>

W_sheme == <<"s","h","e","m","e">>

W_skeme == <<"s","k","e","m","e">>

W_leki == <<"l","e","k","i">>

W_leky == <<"l","e","k","y">>

W_lecki == <<"l","e","c","k","i">>

W_etiossa == <<"e","t","i","o","s","s","a">>

W_etioosa == <<"e","t","i","o","o","s","a">>

\* ------------------------------------------------------------------ normalizeText

\* True iff w is  pre n+ post  (one or more "n" between pre and post).
IsPenPlus(w, pre, mid, post) ==
    /\ Len(w) >= Len(pre) + 1 + Len(post)
    /\ SubSeq(w, 1, Len(pre)) = pre
    /\ SubSeq(w, Len(w) - Len(post) + 1, Len(w)) = post
    /\ \A k \in (Len(pre) + 1)..(Len(w) - Len(post)) : w[k] = mid

\* The six misspelling rules of normalizeText, in source order: whether the
\* alternation of rule k matches the whole word w.
RuleMatches(k, w) ==
    CASE k = 1 -> IsPenPlus(w, W_pe, "n", W_isula) \/ w = W_peninsular
      [] k = 2 -> /\ Len(w) = 11
                  /\ SubSeq(w, 1, 3) = <<"r","e","s">>
                  /\ w[4] \in {"i", "e"}
                  /\ SubSeq(w, 5, 8) = <<"d","e","n","t">>
                  /\ w[9] \in {"i", "a", "e"}
                  /\ SubSeq(w, 10, 11) = <<"a","l">>
      [] k = 3 -> w \in {W_scem, W_sceme, W_schem, W_scheme}
      [] k = 4 -> IsPenPlus(w, <<"l","e">>, "k", <<"i">>)
      [] k = 5 -> w \in {W_etios, W_etioa, W_etiosa, W_etioaa}
      [] k = 6 -> w \in {W_lagos, W_lagus}

RuleCanonical(k) ==
    CASE k = 1 -> W_peninsula
      [] k = 2 -> W_residential
      [] k = 3 -> W_scheme
      [] k = 4 -> W_lekki
      [] k = 5 -> W_etiosa
      [] k = 6 -> W_lagos

RECURSIVE WordEnd(_, _)
\* Index of the last character of the \w run that contains position i.
WordEnd(s, i) ==
    IF i < Len(s) /\ IsWordChar(s[i + 1]) THEN WordEnd(s, i + 1) ELSE i

\* .replace(/\b(ALT)\b/g, canonical) for rule k.  The alternatives consist of
\* letters only, so a match between two \b is a whole maximal \w run: every
\* such run that matches is replaced, everything between the runs is kept.
ReplaceRule(s, k) ==
    LET n == Len(s)
        starts == SelectSeq(Indices(n),
                      LAMBDA i : IsWordChar(s[i]) /\ (i = 1 \/ ~IsWordChar(s[i - 1])))
        ends == SelectSeq(Indices(n),
                    LAMBDA i : IsWordChar(s[i]) /\ (i = n \/ ~IsWordChar(s[i + 1])))
        Word(m) == SubSeq(s, starts[m], ends[m])
        Gap(m) == SubSeq(s, IF m = 1 THEN 1 ELSE ends[m - 1] + 1, starts[m] - 1)
        pieces == [m \in 1..Len(starts) |->
                      Gap(m) \o (IF RuleMatches(k, Word(m)) THEN RuleCanonical(k)
                                 ELSE Word(m))]
    IN  IF starts = <<>> THEN s
        ELSE Concat(pieces) \o SubSeq(s, ends[Len(ends)] + 1, n)

\* .replace(/[^\w\s]/g, ' ')
ReplaceNonWord(s) ==
    [i \in 1..Len(s) |-> IF IsWordChar(s[i]) \/ IsSpace(s[i]) THEN s[i] ELSE " "]

\* normalizeText collapsing the whitespace before the punctuation is replaced.
normalizeText_CollapseFirst(text) ==
    trim(ReplaceRule(ReplaceRule(ReplaceRule(ReplaceRule(ReplaceRule(ReplaceRule(
        ReplaceNonWord(CollapseSpaces(toLowerCase(text))), 1), 2), 3), 4), 5), 6))

normalizeText(text) ==
    trim(CollapseSpaces(
        ReplaceRule(ReplaceRule(ReplaceRule(ReplaceRule(ReplaceRule(ReplaceRule(
            ReplaceNonWord(toLowerCase(text)), 1), 2), 3), 4), 5), 6)))

normalizeForMatching(text) == StripSpaces(normalizeText(text))

\* ------------------------------------------------------------------ block extraction

\* Case-insensitive literal at position i (regular-expression flag i).
LitAt(s, i, lit) ==
    /\ i >= 1
    /\ i + Len(lit) - 1 <= Len(s)
    /\ \A k \in 1..Len(lit) : ToLowerChar(s[i + k - 1]) = lit[k]

RECURSIVE SkipSpaces(_, _)
\* First position at or after i that holds no whitespace (Len(s) + 1 at the end).
SkipSpaces(s, i) ==
    IF i <= Len(s) /\ IsSpace(s[i]) THEN SkipSpaces(s, i + 1) ELSE i

\* \s+ at position i: the position after the run, or 0 when there is none.
SpacesThen(s, i) ==
    IF i <= Len(s) /\ IsSpace(s[i]) THEN SkipSpaces(s, i) ELSE 0

RECURSIVE RunEnd(_, _, _)
\* Index of the last character of the run of c that starts at i.
RunEnd(s, i, c) ==
    IF i < Len(s) /\ ToLowerChar(s[i + 1]) = c THEN RunEnd(s, i + 1, c) ELSE i

\* pen+isula at position i.
PenPlusIsulaAt(s, i) ==
    /\ LitAt(s, i, <<"p","e","n">>)
    /\ LitAt(s, RunEnd(s, i + 2, "n") + 1, W_isula)

\* compoundPatterns of extractEnhancedAddressBlocks, in source order.
\*   kind "ll":  a \s+ b          -> normalized
\*   kind "lp":  a \s+ pen+isula  -> normalized
\*   kind "wl":  (\w+) \s+ b      -> $1 b
\*   kind "lw":  a \s+ (\w+)      -> a $1
compoundPatterns ==
    << [kind |-> "lp", a |-> W_lekki,       b |-> <<>>,          normalized |-> W_lekki \o W_peninsula],
       [kind |-> "ll", a |-> W_peninsula,   b |-> W_residential, normalized |-> W_peninsula \o W_residential],
       [kind |-> "ll", a |-> W_residential, b |-> W_scheme,      normalized |-> W_residential \o W_scheme],
       [kind |-> "ll", a |-> W_eti,         b |-> W_osa,         normalized |-> W_eti \o W_osa],
       [kind |-> "ll", a |-> W_lagos,       b |-> W_state,       normalized |-> W_lagos \o W_state],
       [kind |-> "ll", a |-> W_victoria,    b |-> W_island,      normalized |-> W_victoria \o W_island],
       [kind |-> "ll", a |-> W_port,        b |-> W_harcourt,    normalized |-> W_port \o W_harcourt],
       [kind |-> "wl", a |-> <<>>,          b |-> W_estate,      normalized |-> <<>>],
       [kind |-> "wl", a |-> <<>>,          b |-> W_close,       normalized |-> <<>>],
       [kind |-> "wl", a |-> <<>>,          b |-> W_street,      normalized |-> <<>>],
       [kind |-> "wl", a |-> <<>>,          b |-> W_road,        normalized |-> <<>>],
       [kind |-> "wl", a |-> <<>>,          b |-> W_avenue,      normalized |-> <<>>],
       [kind |-> "lw", a |-> W_plot,        b |-> <<>>,          normalized |-> <<>>],
       [kind |-> "lw", a |-> W_block,       b |-> <<>>,          normalized |-> <<>>],
       [kind |-> "lw", a |-> W_phase,       b |-> <<>>,          normalized |-> <<>>] >>

\* Whether pattern p matches address starting at position i.
PatternAt(address, p, i) ==
    CASE p.kind = "ll" ->
            /\ LitAt(address, i, p.a)
            /\ LitAt(address, SpacesThen(address, i + Len(p.a)), p.b)
      [] p.kind = "lp" ->
            /\ LitAt(address, i, p.a)
            /\ SpacesThen(address, i + Len(p.a)) > 0
            /\ PenPlusIsulaAt(address, SpacesThen(address, i + Len(p.a)))
      [] p.kind = "wl" ->
            /\ IsWordChar(address[i])
            /\ LitAt(address, SpacesThen(address, WordEnd(address, i) + 1), p.b)
      [] p.kind = "lw" ->
            /\ LitAt(address, i, p.a)
            /\ LET q == SpacesThen(address, i + Len(p.a))
               IN  q >= 1 /\ q <= Len(address) /\ IsWordChar(address[q])

\* address.match(pattern) and the block pushed for it: <<block>> or <<>>.
CompoundBlock(address, p) ==
    LET starts == {i \in 1..Len(address) : PatternAt(address, p, i)}
    IN  IF starts = {} THEN <<>>
        ELSE LET i == CHOOSE m \in starts : \A o \in starts : m <= o
             IN  CASE p.kind \in {"ll", "lp"} -> <<p.normalized>>
                   [] p.kind = "wl" ->
                        <<toLowerCase(SubSeq(address, i, WordEnd(address, i))) \o p.b>>
                   [] p.kind = "lw" ->
                        LET q == SpacesThen(address, i + Len(p.a))
                        IN  <<p.a \o toLowerCase(SubSeq(address, q, WordEnd(address, q)))>>

\* compoundPatterns.forEach: the blocks pushed, in pattern order.
CompoundBlocks(address) ==
    Concat([k \in 1..Len(compoundPatterns) |-> CompoundBlock(address, compoundPatterns[k])])

\* part.replace(/[^\w]/g, '').toLowerCase()
CleanToken(part) == toLowerCase(SelectSeq(part, IsWordChar))

\* Adjacent-word bigrams longer than 4 characters.
Bigrams(words) ==
    IF Len(words) < 2 THEN <<>>
    ELSE SelectSeq([i \in 1..(Len(words) - 1) |-> words[i] \o words[i + 1]],
                   LAMBDA b : Len(b) > 4)

extractEnhancedAddressBlocks(address) ==
    LET normalizedAddress == normalizeText(address)
        primarySplit == SelectSeq(Split(normalizedAddress, SpaceChars \cup {","}),
                                  LAMBDA part : Len(part) > 1)
        tokens == SelectSeq([i \in 1..Len(primarySplit) |-> CleanToken(primarySplit[i])],
                            LAMBDA c : Len(c) > 1)
        words == SelectSeq(Split(normalizedAddress, SpaceChars), LAMBDA w : Len(w) > 2)
        blocks == tokens \o CompoundBlocks(address) \o Bigrams(words)
    IN  SelectSeq(Dedupe(blocks), LAMBDA b : Len(b) > 1)

locationKeywords ==
    <<W_lekki, W_peninsula, W_residential, W_scheme, W_eti, W_osa, W_lagos,
      W_estate, W_plot, W_block, W_phase>>

\* text.split(/[\n\r]+/)
Lines(text) == Split(text, {"\n", "\r"})

extractLocationContexts(text) ==
    LET lines == Lines(text)
        Context(line) ==
            LET normalizedLine == normalizeText(line)
                foundKeywords == SelectSeq(locationKeywords,
                                           LAMBDA kw : includes(normalizedLine, kw))
                cleanedLine == StripSpaces(SelectSeq(normalizedLine,
                                   LAMBDA c : IsWordChar(c) \/ IsSpace(c)))
            IN  IF Len(foundKeywords) >= 2 /\ Len(cleanedLine) > 5
                THEN <<cleanedLine>> ELSE <<>>
    IN  Concat([i \in 1..Len(lines) |-> Context(lines[i])])

\* Bigrams and trigrams of extractEnhancedTextBlocks, interleaved as pushed.
PhraseBlocks(words) ==
    LET At(i) ==
            LET bigram == words[i] \o words[i + 1]
                trigram == IF i < Len(words) - 1 THEN bigram \o words[i + 2] ELSE <<>>
            IN  (IF Len(bigram) > 4 THEN <<bigram>> ELSE <<>>)
                    \o (IF i < Len(words) - 1 /\ Len(trigram) > 6 THEN <<trigram>> ELSE <<>>)
    IN  IF Len(words) < 2 THEN <<>> ELSE Concat([i \in 1..(Len(words) - 1) |-> At(i)])

\* extractEnhancedTextBlocks without its word-level blocks.
extractEnhancedTextBlocks_NoWords(text) ==
    LET words == SelectSeq(Split(normalizeText(text), SpaceChars), LAMBDA w : Len(w) > 1)
        lines == Lines(text)
        lineBlocks == SelectSeq([i \in 1..Len(lines) |-> StripSpaces(normalizeText(lines[i]))],
                                LAMBDA c : Len(c) > 3)
    IN  SelectSeq(Dedupe(lineBlocks \o PhraseBlocks(words) \o extractLocationContexts(text)),
                  LAMBDA b : Len(b) > 1)

extractEnhancedTextBlocks(text) ==
    LET normalizedText == normalizeText(text)
        words == SelectSeq(Split(normalizedText, SpaceChars), LAMBDA w : Len(w) > 1)
        wordBlocks == SelectSeq([i \in 1..Len(words) |-> CleanToken(words[i])],
                                LAMBDA c : Len(c) > 1)
        lines == Lines(text)
        lineBlocks == SelectSeq([i \in 1..Len(lines) |-> StripSpaces(normalizeText(lines[i]))],
                                LAMBDA c : Len(c) > 3)
        blocks == wordBlocks \o lineBlocks \o PhraseBlocks(words)
                      \o extractLocationContexts(text)
    IN  SelectSeq(Dedupe(blocks), LAMBDA b : Len(b) > 1)

\* ------------------------------------------------------------------ numbers

NaN == <<0, 0>>

RECURSIVE GCD(_, _)
GCD(a, b) == IF b = 0 THEN a ELSE GCD(b, a % b)

\* The number n / d (n >= 0, d >= 0) in lowest terms; NaN when d = 0.
Rat(n, d) == IF d = 0 THEN NaN ELSE LET g == GCD(n, d) IN <<n \div g, d \div g>>

Zero == Rat(0, 1)

One == Rat(1, 1)

IsNaN(x) == x[2] = 0

RAdd(x, y) ==
    IF IsNaN(x) \/ IsNaN(y) THEN NaN
    ELSE LET g == GCD(x[2], y[2])
         IN  Rat(x[1] * (y[2] \div g) + y[1] * (x[2] \div g), (x[2] \div g) * y[2])

\* x - y for x >= y.
RSub(x, y) ==
    IF IsNaN(x) \/ IsNaN(y) THEN NaN
    ELSE LET g == GCD(x[2], y[2])
         IN  Rat(x[1] * (y[2] \div g) - y[1] * (x[2] \div g), (x[2] \div g) * y[2])

RMul(x, y) ==
    IF IsNaN(x) \/ IsNaN(y) THEN NaN
    ELSE LET g1 == GCD(x[1], y[2])
             g2 == GCD(y[1], x[2])
         IN  IF x[1] = 0 \/ y[1] = 0 THEN Zero
             ELSE <<(x[1] \div g1) * (y[1] \div g2), (x[2] \div g2) * (y[2] \div g1)>>

\* x / k for an integer k (NaN when k = 0 : JavaScript 0/0).
RDivInt(x, k) ==
    IF IsNaN(x) \/ k = 0 THEN NaN ELSE RMul(x, Rat(1, k))

RECURSIVE FracLess(_, _, _, _)
\* a/b < c/d for a, c >= 0 and b, d > 0, by continued-fraction expansion.
FracLess(a, b, c, d) ==
    LET q1 == a \div b
        q2 == c \div d
        r1 == a % b
        r2 == c % d
    IN  IF q1 # q2 THEN q1 < q2
        ELSE IF r2 = 0 THEN FALSE
        ELSE IF r1 = 0 THEN TRUE
        ELSE FracLess(d, r2, b, r1)

\* JavaScript comparisons: any comparison with NaN is false.
RLt(x, y) == ~IsNaN(x) /\ ~IsNaN(y) /\ FracLess(x[1], x[2], y[1], y[2])

RLe(x, y) == ~IsNaN(x) /\ ~IsNaN(y) /\ ~FracLess(y[1], y[2], x[1], x[2])

RMax(x, y) == IF RLt(x, y) THEN y ELSE x

\* Math.round of a non-negative number: halves round up; Math.round(NaN) is NaN.
MathRound(x) == IF IsNaN(x) THEN NaN ELSE (2 * x[1] + x[2]) \div (2 * x[2])

Min2(a, b) == IF a <= b THEN a ELSE b

Max2(a, b) == IF a >= b THEN a ELSE b

\* ------------------------------------------------------------------ similarity metrics

\* calculateSubstringMatch without the guard on the two lengths.
calculateSubstringMatch_AnyLength(str1, str2) ==
    IF includes(str1, str2) \/ includes(str2, str1)
    THEN Rat(Min2(Len(str1), Len(str2)), Max2(Len(str1), Len(str2)))
    ELSE Zero

calculateSubstringMatch(str1, str2) ==
    IF /\ Len(str1) >= 3
       /\ Len(str2) >= 3
       /\ (includes(str1, str2) \/ includes(str2, str1))
    THEN Rat(Min2(Len(str1), Len(str2)), Max2(Len(str1), Len(str2)))
    ELSE Zero

RECURSIVE LevRow(_, _, _, _)
\* One row of the matrix: row[i + 1] = matrix[j][i], from the row above (prev),
\* the character c = str2[j] and the cells of this row already filled (acc).
LevRow(str1, c, prev, acc) ==
    LET i == Len(acc)
    IN  IF i > Len(str1) THEN acc
        ELSE LET substitutionCost == IF str1[i] = c THEN 0 ELSE 1
                 cell == Min2(Min2(acc[i] + 1, prev[i + 1] + 1),
                              prev[i] + substitutionCost)
             IN  LevRow(str1, c, prev, Append(acc, cell))

RECURSIVE LevMatrix(_, _, _)
\* The rows of the matrix, matrix[j + 1] being row j; row 0 is 0..str1.length.
LevMatrix(str1, str2, matrix) ==
    LET j == Len(matrix)
    IN  IF j > Len(str2) THEN matrix
        ELSE LevMatrix(str1, str2,
                       Append(matrix, LevRow(str1, str2[j], matrix[j], <<j>>)))

levenshteinDistance(str1, str2) ==
    LevMatrix(str1, str2, << [i \in 1..(Len(str1) + 1) |-> i - 1] >>)
        [Len(str2) + 1][Len(str1) + 1]

calculateLevenshteinSimilarity(str1, str2) ==
    IF str1 = str2 THEN One
    ELSE IF Len(str1) = 0 \/ Len(str2) = 0 THEN Zero
    ELSE LET distance == levenshteinDistance(str1, str2)
             maxLength == Max2(Len(str1), Len(str2))
         IN  RSub(One, Rat(distance, maxLength))

phoneticMap ==
    << <<W_peninsula, W_pennisula, W_peninsular, W_penninsula>>,
       <<W_residential, W_residental, W_residencial, W_resedential>>,
       <<W_scheme, W_sheme, W_sceme, W_skeme>>,
       <<W_lekki, W_leki, W_leky, W_lecki>>,
       <<W_etiosa, W_etios, W_etiossa, W_etioosa>> >>

InList(ws, w) == \E k \in 1..Len(ws) : ws[k] = w

calculatePhoneticSimilarity(str1, str2) ==
    IF \E g \in 1..Len(phoneticMap) :
           InList(phoneticMap[g], str1) /\ InList(phoneticMap[g], str2)
    THEN Rat(9, 10)
    ELSE Zero

RECURSIVE JaroMatches_Str1Only(_, _, _, _, _, _)
\* JaroMatches that marks a match in str1Matches only.
JaroMatches_Str1Only(str1, str2, matchWindow, i, str1Matches, str2Matches) ==
    IF i > Len(str1) THEN <<str1Matches, str2Matches>>
    ELSE IF \E j \in Max2(1, i - matchWindow)..Min2(i + matchWindow, Len(str2)) :
                str1[i] = str2[j]
         THEN JaroMatches_Str1Only(str1, str2, matchWindow, i + 1,
                                   str1Matches \cup {i}, str2Matches)
         ELSE JaroMatches_Str1Only(str1, str2, matchWindow, i + 1, str1Matches, str2Matches)

RECURSIVE JaroMatches(_, _, _, _, _, _)
\* The "identify matches" loop: the sets of matched positions of str1 and str2.
JaroMatches(str1, str2, matchWindow, i, str1Matches, str2Matches) ==
    IF i > Len(str1) THEN <<str1Matches, str2Matches>>
    ELSE LET start == Max2(1, i - matchWindow)
             end == Min2(i + matchWindow, Len(str2))
             cand == {j \in start..end : j \notin str2Matches /\ str1[i] = str2[j]}
         IN  IF cand = {}
             THEN JaroMatches(str1, str2, matchWindow, i + 1, str1Matches, str2Matches)
             ELSE LET j == CHOOSE m \in cand : \A o \in cand : m <= o
                  IN  JaroMatches(str1, str2, matchWindow, i + 1,
                                  str1Matches \cup {i}, str2Matches \cup {j})

RECURSIVE NextMatched(_, _, _)
\* while (!str2Matches[k]) k++ : the first matched position at or after k;
\* 0 when there is none (the scan would run past the end of str2).
NextMatched(str2Matches, k, n) ==
    IF k > n THEN 0
    ELSE IF k \in str2Matches THEN k
    ELSE NextMatched(str2Matches, k + 1, n)

RECURSIVE CountTranspositions(_, _, _, _, _, _, _)
\* The "count transpositions" loop; -1 when the inner scan leaves str2.
CountTranspositions(str1, str2, str1Matches, str2Matches, i, k, transpositions) ==
    IF i > Len(str1) THEN transpositions
    ELSE IF i \notin str1Matches
         THEN CountTranspositions(str1, str2, str1Matches, str2Matches,
                                  i + 1, k, transpositions)
         ELSE LET k2 == NextMatched(str2Matches, k, Len(str2))
              IN  IF k2 = 0 THEN -1
                  ELSE CountTranspositions(str1, str2, str1Matches, str2Matches, i + 1, k2 + 1,
                           IF str1[i] # str2[k2] THEN transpositions + 1 ELSE transpositions)

RECURSIVE CommonPrefix(_, _, _, _)
CommonPrefix(str1, str2, i, limit) ==
    IF i <= limit /\ str1[i] = str2[i] THEN CommonPrefix(str1, str2, i + 1, limit) ELSE i - 1

calculateJaroWinklerSimilarity(str1, str2) ==
    IF str1 = str2 THEN One
    ELSE IF Len(str1) = 0 \/ Len(str2) = 0 THEN Zero
    ELSE LET matchWindow == (Max2(Len(str1), Len(str2)) \div 2) - 1
             marks == JaroMatches(str1, str2, matchWindow, 1, {}, {})
             matches == Cardinality(marks[1])
         IN  IF matches = 0 THEN Zero
             ELSE LET transpositions ==
                          CountTranspositions(str1, str2, marks[1], marks[2], 1, 1, 0)
                      jaro == RDivInt(RAdd(RAdd(Rat(matches, Len(str1)),
                                                Rat(matches, Len(str2))),
                                           Rat(2 * matches - transpositions, 2 * matches)),
                                      3)
                      prefix == CommonPrefix(str1, str2, 1,
                                             Min2(Min2(Len(str1), Len(str2)), 4))
                  IN  RAdd(jaro, RMul(Rat(prefix, 10), RSub(One, jaro)))

\* The weights of calculateAdvancedBlockSimilarity.
weights ==
    [exact |-> Rat(40, 100), substring |-> Rat(25, 100), levenshtein |-> Rat(15, 100),
     jaro |-> Rat(15, 100), phonetic |-> Rat(5, 100)]

\* The weighted sum of calculateAdvancedBlockSimilarity on the normalized blocks.
WeightedSimilarity(norm1, norm2) ==
    LET exactMatch == IF norm1 = norm2 THEN One ELSE Zero
        substringMatch == calculateSubstringMatch(norm1, norm2)
        levenshteinSim == calculateLevenshteinSimilarity(norm1, norm2)
        jaroSim == calculateJaroWinklerSimilarity(norm1, norm2)
        phoneticSim == calculatePhoneticSimilarity(norm1, norm2)
    IN  RAdd(RAdd(RAdd(RAdd(RMul(exactMatch, weights.exact),
                            RMul(substringMatch, weights.substring)),
                       RMul(levenshteinSim, weights.levenshtein)),
                  RMul(jaroSim, weights.jaro)),
             RMul(phoneticSim, weights.phonetic))

calculateAdvancedBlockSimilarity(block1, block2) ==
    WeightedSimilarity(normalizeForMatching(block1), normalizeForMatching(block2))

determineMatchType(similarity) ==
    IF RLe(Rat(95, 100), similarity) THEN "exact"
    ELSE IF RLe(Rat(8, 10), similarity) THEN "fuzzy"
    ELSE "partial"

\* ------------------------------------------------------------------ block matching

RECURSIVE BestMatchFrom(_, _, _, _)
RECURSIVE BestMatchStep(_, _, _, _, _)
\* extractedBlocks.forEach of performEnhancedBlockMatching: the best match kept
\* for one provided block (a later block replaces it only when strictly better).
BestMatchFrom(providedBlock, extractedBlocks, k, bestMatch) ==
    IF k > Len(extractedBlocks) THEN bestMatch
    ELSE BestMatchStep(providedBlock, extractedBlocks, k, bestMatch,
             calculateAdvancedBlockSimilarity(providedBlock, extractedBlocks[k]))

\* if (similarity > bestMatch.similarity) bestMatch = {...}
BestMatchStep(providedBlock, extractedBlocks, k, bestMatch, similarity) ==
    IF RLt(bestMatch.similarity, similarity)
    THEN BestMatchFrom(providedBlock, extractedBlocks, k + 1,
             [block |-> extractedBlocks[k], similarity |-> similarity,
              matchType |-> determineMatchType(similarity)])
    ELSE BestMatchFrom(providedBlock, extractedBlocks, k + 1, bestMatch)

BestMatch(providedBlock, extractedBlocks) ==
    BestMatchFrom(providedBlock, extractedBlocks, 1,
                  [block |-> <<>>, similarity |-> Zero, matchType |-> "partial"])

\* Accepts with the threshold of an exact match (0.95) in place of 0.7.
Accepts_ExactOnly(bestMatch) == RLe(Rat(95, 100), bestMatch.similarity)

\* Accept matches with 70% or higher similarity.
Accepts(bestMatch) == RLe(Rat(7, 10), bestMatch.similarity)

\* providedBlocks.forEach of performEnhancedBlockMatching: the matches pushed.
MatchedBlocks(providedBlocks, extractedBlocks) ==
    LET Match(providedBlock, bestMatch) ==
            IF Accepts(bestMatch)
            THEN <<[provided |-> providedBlock, matched |-> bestMatch.block,
                    similarity |-> bestMatch.similarity,
                    matchType |-> bestMatch.matchType]>>
            ELSE <<>>
    IN  Concat([k \in 1..Len(providedBlocks) |->
                   Match(providedBlocks[k], BestMatch(providedBlocks[k], extractedBlocks))])

RECURSIVE SumSimilarity(_)
SumSimilarity(matchedBlocks) ==
    IF matchedBlocks = <<>> THEN Zero
    ELSE RAdd(Head(matchedBlocks).similarity, SumSimilarity(Tail(matchedBlocks)))

\* blockScore = providedBlocks.length > 0 ? totalScore / providedBlocks.length : 0
BlockScore(totalScore, providedCount) ==
    IF providedCount > 0 THEN RDivInt(totalScore, providedCount) ELSE Zero

\* BlockMatchResult with blockScore averaged over the accepted matches instead
\* of the provided blocks.
BlockMatchResult_PerMatch(providedBlocks, extractedBlocks, matchedBlocks) ==
    [providedBlocks |-> providedBlocks,
     extractedBlocks |-> extractedBlocks,
     matchedBlocks |-> matchedBlocks,
     blockScore |-> BlockScore(SumSimilarity(matchedBlocks), Len(matchedBlocks)),
     totalMatches |-> Len(matchedBlocks)]

\* The BlockMatchResult returned by performEnhancedBlockMatching.
BlockMatchResult(providedBlocks, extractedBlocks, matchedBlocks) ==
    [providedBlocks |-> providedBlocks,
     extractedBlocks |-> extractedBlocks,
     matchedBlocks |-> matchedBlocks,
     blockScore |-> BlockScore(SumSimilarity(matchedBlocks), Len(providedBlocks)),
     totalMatches |-> Len(matchedBlocks)]

\* performEnhancedBlockMatching on the extracted block lists.
MatchBlocks(providedBlocks, extractedBlocks) ==
    BlockMatchResult(providedBlocks, extractedBlocks,
                     MatchedBlocks(providedBlocks, extractedBlocks))

performEnhancedBlockMatching(address, text) ==
    MatchBlocks(extractEnhancedAddressBlocks(address), extractEnhancedTextBlocks(text))

\* ------------------------------------------------------------------ name matching

\* providedFullName.toLowerCase().replace(/[^a-z\s]/g, '').replace(/\s+/g, ' ').trim()
NormalizeProvidedName(name) ==
    trim(CollapseSpaces(SelectSeq(toLowerCase(name),
                                  LAMBDA c : c \in LowerLetters \/ IsSpace(c))))

\* text.toLowerCase().replace(/[^a-z\s]/g, ' ').replace(/\s+/g, ' ')
NormalizeNameText(text) ==
    CollapseSpaces([i \in 1..Len(text) |->
        LET c == ToLowerChar(text[i])
        IN  IF c \in LowerLetters \/ IsSpace(c) THEN c ELSE " "])

NonEmpty(w) == w # <<>>

RECURSIVE BestTokenMatch(_, _, _, _)
\* textWords.reduce((best, word) => similarity > best ? similarity : best, 0)
BestTokenMatch(token, textWords, k, best) ==
    IF k > Len(textWords) THEN best
    ELSE LET similarity == calculateLevenshteinSimilarity(token, textWords[k])
         IN  BestTokenMatch(token, textWords, k + 1,
                            IF RLt(best, similarity) THEN similarity ELSE best)

RECURSIVE SumRat(_)
SumRat(xs) == IF xs = <<>> THEN Zero ELSE RAdd(Head(xs), SumRat(Tail(xs)))

\* ratio of calculateNameMatchScore, before rounding.
NameRatio(name, text) ==
    LET normalizedProvided == NormalizeProvidedName(name)
        normalizedText == NormalizeNameText(text)
        nameTokens == SelectSeq(Split(normalizedProvided, {" "}), NonEmpty)
        textWords == Split(normalizedText, SpaceChars)
        totalScore == SumRat([i \in 1..Len(nameTokens) |->
                                 BestTokenMatch(nameTokens[i], textWords, 1, Zero)])
    IN  IF Len(nameTokens) > 0 THEN RDivInt(totalScore, Len(nameTokens)) ELSE Zero

\* matchFullName taking for ratio the average best similarity of the name tokens.
matchFullName_Average(name, text) ==
    IF name = <<>> THEN [matched |-> FALSE, value |-> <<>>, ratio |-> Zero]
    ELSE IF includes(NormalizeNameText(text), NormalizeProvidedName(name))
    THEN [matched |-> TRUE, value |-> name, ratio |-> One]
    ELSE IF RLe(Rat(6, 10), NameRatio(name, text))
    THEN [matched |-> TRUE, value |-> name, ratio |-> NameRatio(name, text)]
    ELSE [matched |-> FALSE, value |-> <<>>, ratio |-> NameRatio(name, text)]

\* The result of matchFullName, with its local ratio (1 when the normalized
\* name is found verbatim and no ratio is computed, 0 for an empty name).
matchFullName(name, text) ==
    IF name = <<>> THEN [matched |-> FALSE, value |-> <<>>, ratio |-> Zero]
    ELSE LET normalizedProvided == NormalizeProvidedName(name)
             normalizedText == NormalizeNameText(text)
         IN  IF includes(normalizedText, normalizedProvided)
             THEN [matched |-> TRUE, value |-> name, ratio |-> One]
             ELSE LET nameTokens == SelectSeq(Split(normalizedProvided, {" "}), NonEmpty)
                      textWords == Split(normalizedText, SpaceChars)
                      found == SelectSeq(nameTokens, LAMBDA token :
                                   RLe(Rat(8, 10),
                                       BestTokenMatch(token, textWords, 1, Zero)))
                      ratio == Rat(Len(found), Len(nameTokens))
                  IN  IF RLe(Rat(6, 10), ratio)
                      THEN [matched |-> TRUE, value |-> name, ratio |-> ratio]
                      ELSE [matched |-> FALSE, value |-> <<>>, ratio |-> ratio]

\* calculateNameMatchScore scoring the share of name tokens found, as matchFullName.
calculateNameMatchScore_FoundRatio(name, text) ==
    IF name = <<>> THEN 0
    ELSE IF includes(NormalizeNameText(text), NormalizeProvidedName(name)) THEN 100
    ELSE MathRound(RMul(matchFullName(name, text).ratio, Rat(100, 1)))

\* calculateNameMatchScore without its return of 0 for an empty name.
calculateNameMatchScore_NoShortCircuit(name, text) ==
    IF includes(NormalizeNameText(text), NormalizeProvidedName(name)) THEN 100
    ELSE MathRound(RMul(NameRatio(name, text), Rat(100, 1)))

calculateNameMatchScore(name, text) ==
    IF name = <<>> THEN 0
    ELSE IF includes(NormalizeNameText(text), NormalizeProvidedName(name)) THEN 100
    ELSE MathRound(RMul(NameRatio(name, text), Rat(100, 1)))

\* ------------------------------------------------------------------ processUtilityBill

Hundred == Rat(100, 1)

\* addressScore = blockMatchResult.blockScore * 100
AddressScore(blockScore) == RMul(blockScore, Hundred)

\* FinalAddressScore without the forced 100.
FinalAddressScore_NoForce(blockScore, blockCount) ==
    IF blockCount >= 5 THEN RMax(AddressScore(blockScore), Rat(85, 1))
    ELSE IF blockCount >= 3 THEN RMax(AddressScore(blockScore), Rat(75, 1))
    ELSE AddressScore(blockScore)

\* FinalAddressScore without the floors of 75 and 85.
FinalAddressScore_NoFloors(blockScore, blockCount) ==
    IF blockCount >= 5 /\ RLt(Rat(75, 100), blockScore) THEN Hundred
    ELSE AddressScore(blockScore)

\* FinalAddressScore with the floors of 3-4 and of 5 or more matches exchanged.
FinalAddressScore_SwappedFloors(blockScore, blockCount) ==
    IF blockCount >= 5 /\ RLt(Rat(75, 100), blockScore) THEN Hundred
    ELSE IF blockCount >= 5 THEN RMax(AddressScore(blockScore), Rat(75, 1))
    ELSE IF blockCount >= 3 THEN RMax(AddressScore(blockScore), Rat(85, 1))
    ELSE AddressScore(blockScore)

\* Dynamic scoring based on block matches, and the forced 100.
FinalAddressScore(blockScore, blockCount) ==
    LET addressScore == AddressScore(blockScore)
        boosted == IF blockCount >= 5 THEN RMax(addressScore, Rat(85, 1))
                   ELSE IF blockCount >= 3 THEN RMax(addressScore, Rat(75, 1))
                   ELSE addressScore
    IN  IF blockCount >= 5 /\ RLt(Rat(75, 100), blockScore) THEN Hundred ELSE boosted

\* AddressThreshold with 0.85 whatever the number of matches.
AddressThreshold_Fixed(blockCount) == Rat(85, 100)

\* AddressThreshold without any threshold.
AddressThreshold_None(blockCount) == Zero

\* addressThreshold = blockCount >= 5 ? 0.85 : 0.75
AddressThreshold(blockCount) == IF blockCount >= 5 THEN Rat(85, 100) ELSE Rat(75, 100)

\* nameThreshold = 0.5
nameThreshold == Rat(5, 10)

\* finalAddressScore >= addressThreshold * 100
FuzzyVerdict(finalAddressScore, blockCount) ==
    RLe(RMul(AddressThreshold(blockCount), Hundred), finalAddressScore)

\* providedAddressWords.slice(i, i + 5).join(' ')
Ngram(providedAddressWords, i) == JoinSpace(SubSeq(providedAddressWords, i, i + 4))

\* StrictPhraseMatch recording the last matching window instead of the first
\* (the loop without its break).
StrictPhraseMatch_LastWindow(normalizedProvidedAddress, normalizedExtractedText, fuzzy) ==
    LET providedAddressWords ==
            SelectSeq(Split(normalizedProvidedAddress, {" "}), NonEmpty)
        hits == {i \in 1..(Len(providedAddressWords) - 4) :
                    includes(normalizedExtractedText, Ngram(providedAddressWords, i))}
    IN  IF Len(providedAddressWords) < 5
        THEN [strictAddressMatch |-> fuzzy, matchedNgram |-> <<>>]
        ELSE IF hits = {} THEN [strictAddressMatch |-> FALSE, matchedNgram |-> <<>>]
        ELSE [strictAddressMatch |-> TRUE,
              matchedNgram |->
                  Ngram(providedAddressWords, CHOOSE i \in hits : \A o \in hits : i >= o)]

\* StrictPhraseMatch without the short-address fallback: a short address never
\* matches strictly.
StrictPhraseMatch_NoFallback(normalizedProvidedAddress, normalizedExtractedText, fuzzy) ==
    LET providedAddressWords ==
            SelectSeq(Split(normalizedProvidedAddress, {" "}), NonEmpty)
        hits == {i \in 1..(Len(providedAddressWords) - 4) :
                    includes(normalizedExtractedText, Ngram(providedAddressWords, i))}
    IN  IF Len(providedAddressWords) < 5 \/ hits = {}
        THEN [strictAddressMatch |-> FALSE, matchedNgram |-> <<>>]
        ELSE [strictAddressMatch |-> TRUE,
              matchedNgram |->
                  Ngram(providedAddressWords, CHOOSE i \in hits : \A o \in hits : i <= o)]

\* StrictPhraseMatch with the n-gram verdict of a long address granted only
\* when the fuzzy verdict is true as well.
StrictPhraseMatch_FuzzyGate(normalizedProvidedAddress, normalizedExtractedText, fuzzy) ==
    IF Len(SelectSeq(Split(normalizedProvidedAddress, {" "}), NonEmpty)) < 5
    THEN [strictAddressMatch |-> fuzzy, matchedNgram |-> <<>>]
    ELSE IF fuzzy
    THEN StrictPhraseMatch_NoFallback(normalizedProvidedAddress, normalizedExtractedText,
                                      fuzzy)
    ELSE [strictAddressMatch |-> FALSE, matchedNgram |-> <<>>]

\* The strict phrase match: the 5-word n-gram loop, or the short-address fallback.
StrictPhraseMatch(normalizedProvidedAddress, normalizedExtractedText, fuzzy) ==
    LET providedAddressWords ==
            SelectSeq(Split(normalizedProvidedAddress, {" "}), NonEmpty)
    IN  IF Len(providedAddressWords) >= 5
        THEN LET hits == {i \in 1..(Len(providedAddressWords) - 4) :
                             includes(normalizedExtractedText,
                                      Ngram(providedAddressWords, i))}
             IN  IF hits = {}
                 THEN [strictAddressMatch |-> FALSE, matchedNgram |-> <<>>]
                 ELSE [strictAddressMatch |-> TRUE,
                       matchedNgram |->
                           Ngram(providedAddressWords,
                                 CHOOSE i \in hits : \A o \in hits : i <= o)]
        ELSE [strictAddressMatch |-> fuzzy, matchedNgram |-> <<>>]

\* CombinedScore without the override that follows the forced address score.
CombinedScore_NoOverride(finalAddressScore, nameScore, blockCount, blockScore) ==
    MathRound(RAdd(RMul(finalAddressScore, Rat(7, 10)),
                   RMul(Rat(nameScore, 1), Rat(3, 10))))

\* CombinedScore adding the two scores without their weights.
CombinedScore_Unweighted(finalAddressScore, nameScore, blockCount, blockScore) ==
    IF blockCount >= 5 /\ RLt(Rat(75, 100), blockScore) /\ finalAddressScore = Hundred
    THEN 100
    ELSE MathRound(RAdd(finalAddressScore, Rat(nameScore, 1)))

\* Weighted scoring: 70% address, 30% name; forced to 100 with the address score.
CombinedScore(finalAddressScore, nameScore, blockCount, blockScore) ==
    IF blockCount >= 5 /\ RLt(Rat(75, 100), blockScore) /\ finalAddressScore = Hundred
    THEN 100
    ELSE MathRound(RAdd(RMul(finalAddressScore, Rat(7, 10)),
                        RMul(Rat(nameScore, 1), Rat(3, 10))))

\* The extracted-text validation: !extractedText || extractedText.trim().length < 5
TextRejected(text) == Len(trim(text)) < 5

\* The OCRResult of processUtilityBill (foundAddresses and confidence, which no
\* verdict reads, are left out).  The record also carries the locals nameScore
\* and finalAddressScore that the verdicts are computed from.
OCRResult(text, matchedFullName, blockMatchResult, nameScore, normalizedProvidedAddress, normalizedExtractedText) ==
    LET blockCount == blockMatchResult.totalMatches
        finalAddressScore == FinalAddressScore(blockMatchResult.blockScore, blockCount)
        fuzzyAddressMatched == FuzzyVerdict(finalAddressScore, blockCount)
        strict == StrictPhraseMatch(normalizedProvidedAddress, normalizedExtractedText,
                                    fuzzyAddressMatched)
        nameMatched == RLe(RMul(nameThreshold, Hundred), Rat(nameScore, 1))
    IN  [extractedText |-> text,
         addressMatched |-> strict.strictAddressMatch,
         nameMatched |-> nameMatched,
         addressMatch |-> strict.strictAddressMatch /\ nameMatched,
         matchScore |-> CombinedScore(finalAddressScore, nameScore, blockCount,
                                      blockMatchResult.blockScore),
         fullName |-> matchedFullName.value,
         blockMatches |-> blockCount,
         matchingBlocks |-> [k \in 1..Len(blockMatchResult.matchedBlocks) |->
                                blockMatchResult.matchedBlocks[k].provided],
         totalBlocks |-> Len(blockMatchResult.providedBlocks),
         blockMatchDetails |-> blockMatchResult,
         fuzzyAddressMatched |-> fuzzyAddressMatched,
         strictAddressMatched |-> strict.strictAddressMatch,
         normalizedProvidedAddress |-> normalizedProvidedAddress,
         normalizedExtractedText |-> normalizedExtractedText,
         matchedNgram |-> strict.matchedNgram,
         nameScore |-> nameScore,
         finalAddressScore |-> finalAddressScore]

\* processUtilityBill from the validated text to the returned OCRResult.
MatchResult(text, address, name) ==
    OCRResult(text,
              matchFullName(name, text),
              performEnhancedBlockMatching(address, text),
              calculateNameMatchScore(name, text),
              normalizeText(address),
              normalizeText(text))

\* ------------------------------------------------------------------ input literals

W_12 ==
    <<"1", "2">>

W_Ade ==
    <<"A", "d", "e">>

W_RoadComma ==
    <<"R", "o", "a", "d", ",">>

W_IkejaComma ==
    <<"I", "k", "e", "j", "a", ",">>

W_Lagos ==
    <<"L", "a", "g", "o", "s">>

W_StateComma ==
    <<"S", "t", "a", "t", "e", ",">>

W_NG ==
    <<"N", "G">>

\* "12, Ade Road,\nIkeja, Lagus State."
Bill_Exact ==
    <<"1", "2", ",", " ", "A", "d", "e", " ", "R", "o", "a", "d", ",", "\n", "I", "k",
    "e", "j", "a", ",", " ", "L", "a", "g", "u", "s", " ", "S", "t", "a", "t", "e",
    ".">>

\* "12B Ade Road Ikeja Lagos State NG"
Bill_12B ==
    <<"1", "2", "B", " ", "A", "d", "e", " ", "R", "o", "a", "d", " ", "I", "k", "e",
    "j", "a", " ", "L", "a", "g", "o", "s", " ", "S", "t", "a", "t", "e", " ", "N",
    "G">>

\* "NG State Lagos Ikeja\nRoad Ade 12" (the address words in reverse order)
Bill_Scattered ==
    <<"N", "G", " ", "S", "t", "a", "t", "e", " ", "L", "a", "g", "o", "s", " ", "I",
    "k", "e", "j", "a", "\n", "R", "o", "a", "d", " ", "A", "d", "e", " ", "1", "2">>

\* "a b c d e"
Address_Letters ==
    <<"a", " ", "b", " ", "c", " ", "d", " ", "e">>

\* "e d c b a"
Bill_LettersReversed ==
    <<"e", " ", "d", " ", "c", " ", "b", " ", "a">>

\* "a\nb\nc\nd\ne"
Bill_LettersLines ==
    <<"a", "\n", "b", "\n", "c", "\n", "d", "\n", "e">>

\* "15 Adelabu Street Surulere Lagos"
Address_Adelabu ==
    <<"1", "5", " ", "A", "d", "e", "l", "a", "b", "u", " ", "S", "t", "r", "e", "e",
    "t", " ", "S", "u", "r", "u", "l", "e", "r", "e", " ", "L", "a", "g", "o", "s">>

\* "15, Adelabu Street,\nSurulere, Lagus."
Bill_Adelabu ==
    <<"1", "5", ",", " ", "A", "d", "e", "l", "a", "b", "u", " ", "S", "t", "r", "e",
    "e", "t", ",", "\n", "S", "u", "r", "u", "l", "e", "r", "e", ",", " ", "L", "a", "g",
    "u", "s", ".">>

\* "Plot 45, Block C, Lekki Peninsula Residential Scheme, Eti Osa, Lagos"
Address_Scenario ==
    <<"P", "l", "o", "t", " ", "4", "5", ",", " ", "B", "l", "o", "c", "k", " ", "C",
    ",", " ", "L", "e", "k", "k", "i", " ", "P", "e", "n", "i", "n", "s", "u", "l", "a",
    " ", "R", "e", "s", "i", "d", "e", "n", "t", "i", "a", "l", " ", "S", "c", "h", "e",
    "m", "e", ",", " ", "E", "t", "i", " ", "O", "s", "a", ",", " ", "L", "a", "g", "o",
    "s">>

\* "PLOT45 BLOCKC LEKKI PENINSULA RESIDENTIAL SCHEME ETIOSA LAGOS"
Bill_Scenario ==
    <<"P", "L", "O", "T", "4", "5", " ", "B", "L", "O", "C", "K", "C", " ", "L", "E",
    "K", "K", "I", " ", "P", "E", "N", "I", "N", "S", "U", "L", "A", " ", "R", "E", "S",
    "I", "D", "E", "N", "T", "I", "A", "L", " ", "S", "C", "H", "E", "M", "E", " ", "E",
    "T", "I", "O", "S", "A", " ", "L", "A", "G", "O", "S">>

\* "Lekki Lagos"
Address_LekkiLagos ==
    <<"L", "e", "k", "k", "i", " ", "L", "a", "g", "o", "s">>

\* "Bill for John Okafor\nLekki, Lagos"
Bill_Named ==
    <<"B", "i", "l", "l", " ", "f", "o", "r", " ", "J", "o", "h", "n", " ", "O", "k",
    "a", "f", "o", "r", "\n", "L", "e", "k", "k", "i", ",", " ", "L", "a", "g", "o",
    "s">>

\* " ab \n" (fewer than 5 characters once trimmed)
Bill_Short ==
    <<" ", "a", "b", " ", "\n">>

Name_JohnOkafor ==
    <<"J", "o", "h", "n", " ", "O", "k", "a", "f", "o", "r">>

Name_JohnAdeyemiOkafor ==
    <<"J", "o", "h", "n", " ", "A", "d", "e", "y", "e", "m", "i", " ", "O", "k", "a",
    "f", "o", "r">>

Name_JonOkafor ==
    <<"J", "o", "n", " ", "O", "k", "a", "f", "o", "r">>

Name_Digits ==
    <<"1", "2", "3">>

W_45 ==
    <<"4", "5">>

W_c ==
    <<"c">>

W_plot45 ==
    <<"p", "l", "o", "t", "4", "5">>

W_martha ==
    <<"m", "a", "r", "t", "h", "a">>

W_marhta ==
    <<"m", "a", "r", "h", "t", "a">>

W_lekkipeninsula ==
    <<"l", "e", "k", "k", "i", "p", "e", "n", "i", "n", "s", "u", "l", "a">>


\* ------------------------------------------------------------------ bounds

\* Provided addresses are runs of at most MaxAddressWords consecutive words of
\* the address "12 Ade Road, Ikeja, Lagos State, NG".
MaxAddressWords == 6

\* Blocks compared by the metrics are all strings over {a, b} of at most
\* MaxBlockLen characters, and the named blocks below.
MaxBlockLen == 4

\* Block-match results scored have at most MaxProvidedBlocks provided blocks.
MaxProvidedBlocks == 7

W_John ==
    <<"J", "o", "h", "n">>

W_Jon ==
    <<"J", "o", "n">>

W_Okafor ==
    <<"O", "k", "a", "f", "o", "r">>

W_Adeyemi ==
    <<"A", "d", "e", "y", "e", "m", "i">>

\* "  " (whitespace only)
Name_Blank ==
    <<" ", " ">>

\* "J. O'Kafor"
Name_OKafor ==
    <<"J", ".", " ", "O", "'", "K", "a", "f", "o", "r">>

\* "OKAFOR, JOHN\n12 Ade Road"
Text_OkaforJohn ==
    <<"O", "K", "A", "F", "O", "R", ",", " ", "J", "O", "H", "N", "\n", "1", "2", " ",
    "A", "d", "e", " ", "R", "o", "a", "d">>

\* "Mr Jhon Okafur"
Text_JhonOkafur ==
    <<"M", "r", " ", "J", "h", "o", "n", " ", "O", "k", "a", "f", "u", "r">>

\* "12345 678"
Text_Digits ==
    <<"1", "2", "3", "4", "5", " ", "6", "7", "8">>

\* The strings scanned for transpositions have at most MaxScanLen characters.
MaxScanLen == 3

\* The clock advances at most MaxTicks times by the longest tick.
MaxTicks == 3

\* At most MaxCalls calls of verifyUtilityBillAddress run concurrently.
MaxCalls == 2

\* "Mr Jon"
Bill_Jon == <<"M", "r", " ", "J", "o", "n">>

\* A document that is neither a string, a Buffer nor a File.
Data_Unsupported == <<"unsupported">>

\* Names matched have at most MaxNameTokens words.
MaxNameTokens == 2

\* Texts normalized are the concatenations of at most MaxPieces pieces.
MaxPieces == 3

\* Block scores boosted are the multiples of 1 / ScoreSteps in [0, 1].
ScoreSteps == 40

\* ------------------------------------------------------------------ inputs

AddressWords ==
    <<W_12, W_Ade, W_RoadComma, W_IkejaComma, W_Lagos, W_StateComma, W_NG>>

\* The runs of at most max consecutive words of words, joined by spaces
\* (the empty address included).
Windows(words, max) ==
    {JoinSpace(SubSeq(words, run[1], run[1] + run[2] - 1)) :
        run \in {r \in (1..Len(words)) \X (0..max) : r[1] + r[2] - 1 <= Len(words)}}

AddressBills == {Bill_Exact, Bill_12B}

Names ==
    {<<>>, Name_JohnOkafor, Name_JohnAdeyemiOkafor, Name_JonOkafor, Name_Digits}

Request(data, address, name) ==
    [utilityBillData |-> data, providedAddress |-> address, providedFullName |-> name]

\* The calls of verifyUtilityBillAddress explored: the text the OCR engine reads
\* from the document, the provided address and the provided full name.
Requests ==
    {Request(b, a, <<>>) : b \in AddressBills, a \in Windows(AddressWords, MaxAddressWords)}
    \cup {Request(Bill_Scattered, JoinSpace(AddressWords), <<>>)}
    \cup {Request(Bill_Scattered, a, <<>>) :
              a \in {w \in Windows(AddressWords, MaxAddressWords) : Len(Split(w, {" "})) >= 5}}
    \cup {Request(Bill_Adelabu, Address_Adelabu, <<>>)}
    \cup {Request(b, Address_Letters, <<>>) : b \in {Bill_LettersReversed, Bill_LettersLines}}
    \cup {Request(Bill_Scenario, a, <<>>) : a \in {Address_Scenario, Address_LekkiLagos}}
    \cup {Request(Bill_Named, Address_LekkiLagos, n) : n \in Names}
    \cup {Request(Bill_Named, <<>>, Name_Digits)}
    \cup {Request(b, Address_LekkiLagos, Name_JohnOkafor) : b \in {<<>>, Bill_Short}}

\* All strings over {a, b} of at most n characters.
SmallStrings(n) == UNION {[1..k -> {"a", "b"}] : k \in 0..n}

NamedBlocks ==
    {W_c, W_45, W_eti, W_lagos, W_lagus, W_lekki, W_leki, W_scheme, W_sheme,
     W_plot45, W_peninsula, W_pennisula, W_lekkipeninsula, W_martha, W_marhta}

Blocks == SmallStrings(MaxBlockLen) \cup NamedBlocks

\* The similarities a recorded block match can have: those of a provided block
\* with an identical extracted block (a block shorter than 3 characters, a
\* longer one, a word of the phonetic map).  A pair of blocks that differ after
\* normalisation scores below the acceptance threshold.
AcceptedSimilarities == <<Rat(7, 10), Rat(19, 20), Rat(199, 200)>>

NameScores == {0, 1, 29, 49, 50, 51, 81, 100}

\* ------------------------------------------------------------------ state

VARIABLES
    pc,                 \* where the call of verifyUtilityBillAddress stands
    worker,             \* UtilityBillOCR.worker
    utilityBillData,    \* the document, as the text the OCR engine reads from it
    providedAddress,
    providedFullName,
    extractedText,      \* processUtilityBill's extractedText
    result,             \* the OCRResult returned
    error,              \* the error thrown
    metrics,            \* the metrics of one pair of blocks
    scoring,            \* the scores of one block-match result
    normalized,         \* a text, normalized once and twice
    boosts,             \* the final address scores of one block score
    naming,             \* the two name matchers on one name and text
    calls,              \* the concurrent calls of verifyUtilityBillAddress
    ocrs,               \* UtilityBillOCR.worker of each instance: the call that
                        \* created the worker, 0 for null
    workers,            \* the tesseract worker created by each call
    scan,               \* the locals of one calculateJaroWinklerSimilarity
    rateLimitMap,       \* middleware's record of each client IP
    now,                \* Date.now()
    response,           \* the answer of middleware to the last request
    admitted,           \* the requests of each client passed on in its window
    post,               \* the POST handler of /api/verify-address
    database            \* the rows of prisma.verificationResult

vars ==
    <<pc, worker, utilityBillData, providedAddress, providedFullName,
      extractedText, result, error, metrics, scoring, normalized, boosts, naming,
      calls, ocrs, workers, scan, rateLimitMap, now, response, admitted,
      post, database>>

None == <<>>

\* const RATE_LIMIT_WINDOW = 60 * 1000 (1 minute, in milliseconds)
RATE_LIMIT_WINDOW == 60 * 1000

\* const RATE_LIMIT_MAX_REQUESTS = 10
RATE_LIMIT_MAX_REQUESTS == 10

\* The values of getClientIP: an address, and 'unknown' when the request
\* carries neither x-forwarded-for nor x-real-ip.
ClientIPs == {"10.0.0.1", "unknown"}

\* A call of verifyUtilityBillAddress not made yet.
NoCall ==
    [pc |-> "idle", ocr |-> 0, recognizes |-> 0, utilityBillData |-> None,
     providedAddress |-> None, providedFullName |-> None, extractedText |-> None,
     result |-> None, error |-> "none"]

Init ==
    /\ pc = "idle"
    /\ worker = "null"
    /\ utilityBillData = None
    /\ providedAddress = None
    /\ providedFullName = None
    /\ extractedText = None
    /\ result = None
    /\ error = "none"
    /\ metrics = None
    /\ scoring = None
    /\ normalized = None
    /\ boosts = None
    /\ naming = None
    /\ calls = [c \in 1..MaxCalls |-> NoCall]
    /\ ocrs = [i \in 1..MaxCalls |-> 0]
    /\ workers = [c \in 1..MaxCalls |-> [created |-> 0, state |-> "none"]]
    /\ scan = None
    /\ rateLimitMap = [ip \in ClientIPs |-> None]
    /\ now = 0
    /\ response = None
    /\ admitted = [ip \in ClientIPs |-> 0]
    /\ post = [at |-> "idle", body |-> None, log |-> <<>>, results |-> <<>>,
               zoningCadastralResult |-> None, failed |-> "none", response |-> None]
    /\ database = <<>>

\* ------------------------------------------------------------------ verifyUtilityBillAddress

\* const ocr = new UtilityBillOCR(); ocr.processUtilityBill(...) up to its
\* await this.initialize().
verifyUtilityBillAddress(request) ==
    /\ pc = "idle"
    /\ pc' = "initialize"
    /\ utilityBillData' = request.utilityBillData
    /\ providedAddress' = request.providedAddress
    /\ providedFullName' = request.providedFullName
    /\ UNCHANGED <<worker, extractedText, result, error, metrics, scoring, normalized, boosts, naming, calls, ocrs, workers, scan,
                   rateLimitMap, now, response, admitted, post, database>>

\* initialize: createWorker('eng') resolves.
initialize ==
    /\ pc = "initialize"
    /\ worker = "null"
    /\ worker' = "worker"
    /\ pc' = "recognize"
    /\ UNCHANGED <<utilityBillData, providedAddress, providedFullName,
                   extractedText, result, error, metrics, scoring, normalized, boosts, naming, calls, ocrs, workers, scan,
                   rateLimitMap, now, response, admitted, post, database>>

\* initialize: createWorker('eng') rejects; processUtilityBill rejects with it.
initializeFails ==
    /\ pc = "initialize"
    /\ error' = "createWorker"
    /\ pc' = "finally"
    /\ UNCHANGED <<worker, utilityBillData, providedAddress, providedFullName,
                   extractedText, result, metrics, scoring, normalized, boosts, naming, calls, ocrs, workers, scan,
                   rateLimitMap, now, response, admitted, post, database>>

\* processUtilityBill once worker.recognize resolves: the text is validated,
\* matched and scored, and the OCRResult returned (or the error thrown).
processUtilityBill ==
    /\ pc = "recognize"
    /\ worker = "worker"
    /\ extractedText' = utilityBillData
    /\ IF TextRejected(utilityBillData)
       THEN /\ error' = "OCR failed: No text could be extracted from the document"
            /\ result' = result
       ELSE /\ result' = MatchResult(utilityBillData, providedAddress, providedFullName)
            /\ error' = error
    /\ pc' = "finally"
    /\ UNCHANGED <<worker, utilityBillData, providedAddress, providedFullName,
                   metrics, scoring, normalized, boosts, naming, calls, ocrs, workers, scan,
                   rateLimitMap, now, response, admitted, post, database>>

\* processUtilityBill when worker.recognize rejects: caught and rethrown.
recognizeFails ==
    /\ pc = "recognize"
    /\ worker = "worker"
    /\ error' = "OCR failed: recognize"
    /\ pc' = "finally"
    /\ UNCHANGED <<worker, utilityBillData, providedAddress, providedFullName,
                   extractedText, result, metrics, scoring, normalized, boosts, naming, calls, ocrs, workers, scan,
                   rateLimitMap, now, response, admitted, post, database>>

\* finally { await ocr.terminate() }, then the call settles.
terminate ==
    /\ pc = "finally"
    /\ worker' = "null"
    /\ pc' = IF error = "none" THEN "returned" ELSE "thrown"
    /\ UNCHANGED <<utilityBillData, providedAddress, providedFullName,
                   extractedText, result, error, metrics, scoring, normalized, boosts, naming, calls, ocrs, workers, scan,
                   rateLimitMap, now, response, admitted, post, database>>

\* ------------------------------------------------------------------ the metrics applied

\* The metrics of calculateAdvancedBlockSimilarity on norm1 and norm2.
Metrics(block1, block2, norm1, norm2) ==
    [block1 |-> block1,
     block2 |-> block2,
     norm1 |-> norm1,
     norm2 |-> norm2,
     substring |-> calculateSubstringMatch(norm1, norm2),
     levenshtein |-> calculateLevenshteinSimilarity(norm1, norm2),
     jaro |-> calculateJaroWinklerSimilarity(norm1, norm2),
     phonetic |-> calculatePhoneticSimilarity(norm1, norm2),
     combined |-> WeightedSimilarity(norm1, norm2)]

\* calculateAdvancedBlockSimilarity(block1, block2), with the value of each metric.
Compare(block1, block2) ==
    /\ pc = "idle"
    /\ pc' = "compared"
    /\ metrics' = Metrics(block1, block2, normalizeForMatching(block1),
                          normalizeForMatching(block2))
    /\ UNCHANGED <<worker, utilityBillData, providedAddress, providedFullName,
                   extractedText, result, error, scoring, normalized, boosts, naming, calls, ocrs, workers, scan,
                   rateLimitMap, now, response, admitted, post, database>>

\* ------------------------------------------------------------------ the scoring applied

\* The scoring of processUtilityBill on a block-match result with counts[k]
\* matches of similarity AcceptedSimilarities[k] among providedCount provided
\* blocks, and a name score.
Score(providedCount, counts, nameScore) ==
    /\ pc = "idle"
    /\ pc' = "scored"
    /\ scoring' =
         LET totalScore ==
                 SumRat([k \in 1..3 |->
                            RMul(Rat(counts[k], 1), AcceptedSimilarities[k])])
             blockScore == BlockScore(totalScore, providedCount)
             blockCount == counts[1] + counts[2] + counts[3]
             finalAddressScore == FinalAddressScore(blockScore, blockCount)
         IN  [providedCount |-> providedCount,
              totalMatches |-> blockCount,
              blockScore |-> blockScore,
              nameScore |-> nameScore,
              addressScore |-> AddressScore(blockScore),
              finalAddressScore |-> finalAddressScore,
              fuzzyAddressMatched |-> FuzzyVerdict(finalAddressScore, blockCount),
              matchScore |-> CombinedScore(finalAddressScore, nameScore, blockCount,
                                           blockScore)]
    /\ UNCHANGED <<worker, utilityBillData, providedAddress, providedFullName,
                   extractedText, result, error, metrics, normalized, boosts, naming, calls, ocrs, workers, scan,
                   rateLimitMap, now, response, admitted, post, database>>

\* ------------------------------------------------------------------ normalizeText applied

\* Misspellings folded by normalizeText, halves of one, an underscore,
\* punctuation and whitespace.
Pieces ==
    {W_pennisula, W_leki, W_etios, <<"L", "a", "g">>, <<"u", "s">>,
     <<"_">>, <<",", " ">>, <<" ">>, <<"\n", "\t">>}

\* The concatenations of at most n pieces.
Texts(n) == UNION {{Concat(ps) : ps \in [1..k -> Pieces]} : k \in 0..n}

\* normalizeText(text) and normalizeText of its result.
Normalize(text) ==
    /\ pc = "idle"
    /\ pc' = "normalized"
    /\ normalized' = [text |-> text,
                      once |-> normalizeText(text),
                      twice |-> normalizeText(normalizeText(text))]
    /\ UNCHANGED <<worker, utilityBillData, providedAddress, providedFullName,
                   extractedText, result, error, metrics, scoring, boosts, naming, calls, ocrs, workers, scan,
                   rateLimitMap, now, response, admitted, post, database>>

\* ------------------------------------------------------------------ the floor boosts applied

\* The block scores k / n of [0, 1].
BlockScores(n) == {Rat(k, n) : k \in 0..n}

\* finalAddressScore for blockScore with blockCount matches, and with one
\* more, and the fuzzy verdict on it.
FloorBoost(blockScore, blockCount) ==
    /\ pc = "idle"
    /\ pc' = "boosted"
    /\ boosts' = [blockScore |-> blockScore,
                  totalMatches |-> blockCount,
                  finalAddressScore |-> FinalAddressScore(blockScore, blockCount),
                  withOneMore |-> FinalAddressScore(blockScore, blockCount + 1),
                  fuzzyAddressMatched |->
                      FuzzyVerdict(FinalAddressScore(blockScore, blockCount), blockCount)]
    /\ UNCHANGED <<worker, utilityBillData, providedAddress, providedFullName,
                   extractedText, result, error, metrics, scoring, normalized, naming, calls, ocrs, workers, scan,
                   rateLimitMap, now, response, admitted, post, database>>

\* ------------------------------------------------------------------ the name matchers applied

NameWords == {W_John, W_Jon, W_Okafor, W_Adeyemi}

\* The names of 1 to n name words, and the names of the calls explored with a
\* blank name and a name with punctuation.
NamesOf(n) ==
    UNION {{JoinSpace(ws) : ws \in [1..k -> NameWords]} : k \in 1..n}
        \cup Names \cup {Name_Blank, Name_OKafor}

\* Extracted texts that pass the validation of processUtilityBill.
NameTexts ==
    {Bill_Named, Bill_Exact, Text_OkaforJohn, Text_JhonOkafur, Text_Digits}

\* matchFullName(name, text) and calculateNameMatchScore(name, text).
MatchName(name, text) ==
    /\ pc = "idle"
    /\ pc' = "named"
    /\ naming' = [name |-> name,
                  text |-> text,
                  matchedFullName |-> matchFullName(name, text),
                  nameScore |-> calculateNameMatchScore(name, text)]
    /\ UNCHANGED <<worker, utilityBillData, providedAddress, providedFullName,
                   extractedText, result, error, metrics, scoring, normalized, boosts, calls, ocrs, workers, scan,
                   rateLimitMap, now, response, admitted, post, database>>

\* The counts of matches per accepted similarity among n provided blocks.
MatchCounts(n) ==
    {c \in [1..3 -> 0..n] : c[1] + c[2] + c[3] <= n}

\* ------------------------------------------------------------------ concurrent calls

\* One UtilityBillOCR instance kept for every call.
newUtilityBillOCR_Shared(call) == 1

\* The UtilityBillOCR instance of a call: const ocr = new UtilityBillOCR().
newUtilityBillOCR(call) == call

\* The calls of verifyUtilityBillAddress made concurrently: a bill with the
\* name, a text too short, and a document that is neither a string, a Buffer
\* nor a File.
ParallelRequests ==
    {Request(Bill_Jon, <<>>, W_Jon),
     Request(Bill_Short, <<>>, <<>>),
     Request(Data_Unsupported, <<>>, <<>>)}

\* The call settles: its promise resolves with the result or rejects.
Settled(call) == IF call.error = "none" THEN "returned" ELSE "thrown"

\* verifyUtilityBillAddress up to the first await of the call: a new
\* UtilityBillOCR, processUtilityBill, and initialize up to createWorker.
startCall(c, request) ==
    /\ pc \in {"idle", "parallel"}
    /\ calls[c].pc = "idle"
    /\ pc' = "parallel"
    /\ calls' = [calls EXCEPT ![c] =
                    [calls[c] EXCEPT !.pc = IF ocrs[newUtilityBillOCR(c)] = 0
                                            THEN "createWorker" ELSE "try",
                              !.ocr = newUtilityBillOCR(c),
                              !.utilityBillData = request.utilityBillData,
                              !.providedAddress = request.providedAddress,
                              !.providedFullName = request.providedFullName]]
    /\ UNCHANGED <<worker, utilityBillData, providedAddress, providedFullName,
                   extractedText, result, error, metrics, scoring, normalized,
                   boosts, naming, ocrs, workers, scan,
                   rateLimitMap, now, response, admitted, post, database>>

\* initialize: createWorker('eng') resolves and this.worker is assigned.
createWorkerResolves(c) ==
    /\ pc = "parallel"
    /\ calls[c].pc = "createWorker"
    /\ workers' = [workers EXCEPT ![c] = [created |-> @.created + 1, state |-> "running"]]
    /\ ocrs' = [ocrs EXCEPT ![calls[c].ocr] = c]
    /\ calls' = [calls EXCEPT ![c].pc = "try"]
    /\ UNCHANGED <<pc, worker, utilityBillData, providedAddress, providedFullName,
                   extractedText, result, error, metrics, scoring, normalized,
                   boosts, naming, scan,
                   rateLimitMap, now, response, admitted, post, database>>

\* initialize: createWorker('eng') rejects, and processUtilityBill with it.
createWorkerRejects(c) ==
    /\ pc = "parallel"
    /\ calls[c].pc = "createWorker"
    /\ calls' = [calls EXCEPT ![c].pc = "finally", ![c].error = "createWorker"]
    /\ UNCHANGED <<pc, worker, utilityBillData, providedAddress, providedFullName,
                   extractedText, result, error, metrics, scoring, normalized,
                   boosts, naming, ocrs, workers, scan,
                   rateLimitMap, now, response, admitted, post, database>>

\* The try block of processUtilityBill up to await this.worker.recognize.
tryRecognize(c) ==
    /\ pc = "parallel"
    /\ calls[c].pc = "try"
    /\ calls' = [calls EXCEPT ![c] =
                    IF calls[c].utilityBillData = Data_Unsupported
                    THEN [calls[c] EXCEPT !.pc = "finally",
                                          !.error = "OCR failed: Unsupported image format"]
                    ELSE IF ocrs[calls[c].ocr] = 0
                    THEN [calls[c] EXCEPT !.pc = "finally",
                                          !.error = "OCR failed: OCR worker not initialized"]
                    ELSE [calls[c] EXCEPT !.pc = "recognize",
                                          !.recognizes = ocrs[calls[c].ocr]]]
    /\ UNCHANGED <<pc, worker, utilityBillData, providedAddress, providedFullName,
                   extractedText, result, error, metrics, scoring, normalized,
                   boosts, naming, ocrs, workers, scan,
                   rateLimitMap, now, response, admitted, post, database>>

\* worker.recognize resolves: the text is validated, matched and scored, and
\* the OCRResult returned (or the error thrown).
recognizeResolves(c) ==
    /\ pc = "parallel"
    /\ calls[c].pc = "recognize"
    /\ workers[calls[c].recognizes].state = "running"
    /\ calls' = [calls EXCEPT ![c] =
                    IF TextRejected(calls[c].utilityBillData)
                    THEN [calls[c] EXCEPT
                             !.pc = "finally",
                             !.extractedText = calls[c].utilityBillData,
                             !.error = "OCR failed: No text could be extracted from the document"]
                    ELSE [calls[c] EXCEPT
                             !.pc = "finally",
                             !.extractedText = calls[c].utilityBillData,
                             !.result = MatchResult(calls[c].utilityBillData,
                                                    calls[c].providedAddress,
                                                    calls[c].providedFullName)]]
    /\ UNCHANGED <<pc, worker, utilityBillData, providedAddress, providedFullName,
                   extractedText, result, error, metrics, scoring, normalized,
                   boosts, naming, ocrs, workers, scan,
                   rateLimitMap, now, response, admitted, post, database>>

\* worker.recognize rejects: caught and rethrown.
recognizeRejects(c) ==
    /\ pc = "parallel"
    /\ calls[c].pc = "recognize"
    /\ calls' = [calls EXCEPT ![c].pc = "finally", ![c].error = "OCR failed: recognize"]
    /\ UNCHANGED <<pc, worker, utilityBillData, providedAddress, providedFullName,
                   extractedText, result, error, metrics, scoring, normalized,
                   boosts, naming, ocrs, workers, scan,
                   rateLimitMap, now, response, admitted, post, database>>

\* terminate called after a result only, a call that failed settling at once.
terminateWorker_OnSuccess(c) ==
    /\ pc = "parallel"
    /\ calls[c].pc = "finally"
    /\ IF ocrs[calls[c].ocr] # 0 /\ calls[c].error = "none"
       THEN /\ workers' = [workers EXCEPT ![ocrs[calls[c].ocr]].state = "terminated"]
            /\ calls' = [calls EXCEPT ![c].pc = "terminate"]
       ELSE /\ workers' = workers
            /\ calls' = [calls EXCEPT ![c].pc = Settled(calls[c])]
    /\ UNCHANGED <<pc, worker, utilityBillData, providedAddress, providedFullName,
                   extractedText, result, error, metrics, scoring, normalized,
                   boosts, naming, ocrs, scan,
                   rateLimitMap, now, response, admitted, post, database>>

\* finally { await ocr.terminate() }: with a worker, worker.terminate() is
\* called; without one the call settles.
terminateWorker(c) ==
    /\ pc = "parallel"
    /\ calls[c].pc = "finally"
    /\ IF ocrs[calls[c].ocr] # 0
       THEN /\ workers' = [workers EXCEPT ![ocrs[calls[c].ocr]].state = "terminated"]
            /\ calls' = [calls EXCEPT ![c].pc = "terminate"]
       ELSE /\ workers' = workers
            /\ calls' = [calls EXCEPT ![c].pc = Settled(calls[c])]
    /\ UNCHANGED <<pc, worker, utilityBillData, providedAddress, providedFullName,
                   extractedText, result, error, metrics, scoring, normalized,
                   boosts, naming, ocrs, scan,
                   rateLimitMap, now, response, admitted, post, database>>

\* terminate once worker.terminate() resolves: this.worker = null, and the
\* call settles.
workerTerminated(c) ==
    /\ pc = "parallel"
    /\ calls[c].pc = "terminate"
    /\ ocrs' = [ocrs EXCEPT ![calls[c].ocr] = 0]
    /\ calls' = [calls EXCEPT ![c].pc = Settled(calls[c])]
    /\ UNCHANGED <<pc, worker, utilityBillData, providedAddress, providedFullName,
                   extractedText, result, error, metrics, scoring, normalized,
                   boosts, naming, workers, scan,
                   rateLimitMap, now, response, admitted, post, database>>

\* ------------------------------------------------------------------ the transposition scan

\* calculateJaroWinklerSimilarity(str1, str2) up to the "count transpositions"
\* loop: the early returns, or the matched positions and let k = 0, i = 0.
scanStart(str1, str2) ==
    /\ pc = "idle"
    /\ LET matchWindow == (Max2(Len(str1), Len(str2)) \div 2) - 1
           marks == IF str1 = str2 \/ Len(str1) = 0 \/ Len(str2) = 0
                    THEN <<{}, {}>>
                    ELSE JaroMatches(str1, str2, matchWindow, 1, {}, {})
       IN  /\ scan' = [str1 |-> str1, str2 |-> str2,
                       str1Matches |-> marks[1], str2Matches |-> marks[2],
                       i |-> 1, k |-> 1, transpositions |-> 0, at |-> "for"]
           /\ pc' = IF marks[1] = {} THEN "scanned" ELSE "scan"
    /\ UNCHANGED <<worker, utilityBillData, providedAddress, providedFullName,
                   extractedText, result, error, metrics, scoring, normalized,
                   boosts, naming, calls, ocrs, workers,
                   rateLimitMap, now, response, admitted, post, database>>

\* for (let i = 0; i < str1.length; i++) { if (!str1Matches[i]) continue; ...
scanFor ==
    /\ pc = "scan"
    /\ scan.at = "for"
    /\ IF scan.i > Len(scan.str1)
       THEN /\ pc' = "scanned"
            /\ scan' = scan
       ELSE /\ pc' = pc
            /\ scan' = IF scan.i \in scan.str1Matches
                       THEN [scan EXCEPT !.at = "while"]
                       ELSE [scan EXCEPT !.i = scan.i + 1]
    /\ UNCHANGED <<worker, utilityBillData, providedAddress, providedFullName,
                   extractedText, result, error, metrics, scoring, normalized,
                   boosts, naming, calls, ocrs, workers,
                   rateLimitMap, now, response, admitted, post, database>>

\* while (!str2Matches[k]) k++ : one test of the condition.  Past the end of
\* str2 the element is undefined and the condition stays true; k is kept at
\* str2.length there.
scanWhile ==
    /\ pc = "scan"
    /\ scan.at = "while"
    /\ scan' = IF scan.k \in scan.str2Matches
               THEN [scan EXCEPT !.at = "if"]
               ELSE [scan EXCEPT !.k = Min2(scan.k + 1, Len(scan.str2) + 1)]
    /\ UNCHANGED <<pc, worker, utilityBillData, providedAddress, providedFullName,
                   extractedText, result, error, metrics, scoring, normalized,
                   boosts, naming, calls, ocrs, workers,
                   rateLimitMap, now, response, admitted, post, database>>

\* if (str1[i] !== str2[k]) transpositions++; k++; and the i++ of the for.
scanIf ==
    /\ pc = "scan"
    /\ scan.at = "if"
    /\ scan' = [scan EXCEPT
                   !.transpositions = IF scan.str1[scan.i] # scan.str2[scan.k]
                                      THEN scan.transpositions + 1
                                      ELSE scan.transpositions,
                   !.k = scan.k + 1,
                   !.i = scan.i + 1,
                   !.at = "for"]
    /\ UNCHANGED <<pc, worker, utilityBillData, providedAddress, providedFullName,
                   extractedText, result, error, metrics, scoring, normalized,
                   boosts, naming, calls, ocrs, workers,
                   rateLimitMap, now, response, admitted, post, database>>

\* ------------------------------------------------------------------ middleware

\* isRateLimited with a window that ends as soon as resetTime is reached.
isRateLimited_ResetAtBoundary(ip, map, t) ==
    IF map[ip] = None \/ t >= map[ip].resetTime
    THEN [limited |-> FALSE,
          map |-> [map EXCEPT ![ip] = [count |-> 1, resetTime |-> t + RATE_LIMIT_WINDOW]]]
    ELSE IF map[ip].count >= RATE_LIMIT_MAX_REQUESTS
    THEN [limited |-> TRUE, map |-> map]
    ELSE [limited |-> FALSE, map |-> [map EXCEPT ![ip].count = @ + 1]]

\* isRateLimited(ip) at time t = Date.now(): its return value and rateLimitMap
\* after it.
isRateLimited(ip, map, t) ==
    IF map[ip] = None \/ t > map[ip].resetTime
    THEN [limited |-> FALSE,
          map |-> [map EXCEPT ![ip] = [count |-> 1, resetTime |-> t + RATE_LIMIT_WINDOW]]]
    ELSE IF map[ip].count >= RATE_LIMIT_MAX_REQUESTS
    THEN [limited |-> TRUE, map |-> map]
    ELSE [limited |-> FALSE, map |-> [map EXCEPT ![ip].count = @ + 1]]

\* middleware(request) for a request of client ip: an /api/ route is rate
\* limited and answered 429 or passed on, any other route is passed on.
\* admitted counts, for each client, the requests passed on since its record
\* was created.
middleware(api, ip) ==
    /\ pc \in {"idle", "limiting"}
    /\ pc' = "limiting"
    /\ IF api
       THEN LET limit == isRateLimited(ip, rateLimitMap, now)
            IN  /\ rateLimitMap' = limit.map
                /\ response' = [api |-> TRUE, ip |-> ip,
                                status |-> IF limit.limited THEN 429 ELSE 200]
                /\ admitted' =
                       [admitted EXCEPT ![ip] =
                           IF limit.limited THEN @
                           ELSE IF \/ rateLimitMap[ip] = None
                                   \/ limit.map[ip].resetTime # rateLimitMap[ip].resetTime
                           THEN 1
                           ELSE @ + 1]
       ELSE /\ response' = [api |-> FALSE, ip |-> ip, status |-> 200]
            /\ UNCHANGED <<rateLimitMap, admitted, post, database>>
    /\ UNCHANGED <<now, worker, utilityBillData, providedAddress, providedFullName,
                   extractedText, result, error, metrics, scoring, normalized,
                   boosts, naming, calls, ocrs, workers, scan, post, database>>

\* The advances of the clock between two requests: half a window, and one
\* millisecond more.
Ticks == {RATE_LIMIT_WINDOW \div 2, RATE_LIMIT_WINDOW \div 2 + 1}

\* Date.now() advances by d milliseconds.
tick(d) ==
    /\ pc \in {"idle", "limiting"}
    /\ pc' = "limiting"
    /\ now + d <= MaxTicks * (RATE_LIMIT_WINDOW \div 2 + 1)
    /\ now' = now + d
    /\ UNCHANGED <<rateLimitMap, response, admitted, worker, utilityBillData,
                   providedAddress, providedFullName, extractedText, result, error,
                   metrics, scoring, normalized, boosts, naming, calls, ocrs,
                   workers, scan, post, database>>

\* ------------------------------------------------------------------ POST /api/verify-address

\* A field of the JSON body: absent, a string, or a number.
Undefined == [type |-> "undefined", value |-> <<>>]

Str(s) == [type |-> "string", value |-> s]

Num == [type |-> "number", value |-> <<>>]

\* !x of JavaScript on a field of the body.
Falsy(x) == x.type = "undefined" \/ (x.type = "string" /\ x.value = <<>>)

\* "data:"
W_data == <<"d", "a", "t", "a", ":">>

\* s.startsWith('data:')
startsWithData(s) == Len(s) >= Len(W_data) /\ SubSeq(s, 1, Len(W_data)) = W_data

\* s.split(',')[1]: the text between the first comma and the second, undefined
\* without a comma.
AfterComma(s) ==
    LET commas == {i \in 1..Len(s) : s[i] = ","}
        first == CHOOSE i \in commas : \A o \in commas : i <= o
        later == {i \in commas : i > first}
    IN  IF commas = {} THEN Undefined
        ELSE IF later = {} THEN Str(SubSeq(s, first + 1, Len(s)))
        ELSE Str(SubSeq(s, first + 1, (CHOOSE i \in later : \A o \in later : i <= o) - 1))

\* The letters, digits, + and / of base64.
Base64Chars == LowerLetters \cup UpperLetters \cup Digits \cup {"+", "/"}

\* The number of "=" that end s.
RECURSIVE Padding(_)
Padding(s) == IF s # <<>> /\ s[Len(s)] = "=" THEN 1 + Padding(SubSeq(s, 1, Len(s) - 1)) ELSE 0

\* base64Regex = /^[A-Za-z0-9+/]*={0,2}$/
base64Regex(s) ==
    /\ Padding(s) <= 2
    /\ \A k \in 1..(Len(s) - Padding(s)) : s[k] \in Base64Chars

\* Buffer.from(s, 'base64').length, for an s that base64Regex accepts.
BufferLength(s) == ((Len(s) - Padding(s)) * 6) \div 8

\* utility_bill or id_document with its data URL prefix removed:
\* cleanUtilityBillBase64, cleanIdDocumentBase64.
Clean(document) ==
    IF startsWithData(document.value) THEN AfterComma(document.value) ELSE document

\* The validation of POST, lines 117-165: the 400 response it returns, "ok"
\* when it passes, and "TypeError" when a document that is not a string
\* reaches startsWith.
Validation(body) ==
    IF Falsy(body.typed_address) \/ Falsy(body.utility_bill) \/ Falsy(body.id_document)
    THEN "Missing required fields: typed_address, utility_bill, and id_document"
    ELSE IF body.utility_bill.type # "string" THEN "TypeError"
    ELSE IF Falsy(Clean(body.utility_bill)) THEN "Empty base64 image data for utility bill"
    ELSE IF body.id_document.type # "string" THEN "TypeError"
    ELSE IF Falsy(Clean(body.id_document)) THEN "Empty base64 image data for id document"
    ELSE IF \/ ~base64Regex(Clean(body.utility_bill).value)
            \/ ~base64Regex(Clean(body.id_document).value)
    THEN "Invalid base64 format for utility bill or id document"
    ELSE IF \/ BufferLength(Clean(body.utility_bill).value) = 0
            \/ BufferLength(Clean(body.id_document).value) = 0
    THEN "Invalid base64 image data - cannot decode"
    ELSE "ok"

\* The documents of the bodies explored: absent, empty, a data URL without a
\* comma, one with nothing after it, one with a second comma, a character
\* outside base64, padding alone, a single character (no whole byte), base64
\* text, a data URL of base64 text, and a number.
Documents ==
    {Undefined, Str(<<>>), Str(W_data), Str(W_data \o <<",">>),
     Str(W_data \o <<",", ",", "Q", "U", "J", "D">>),
     Str(<<"Q", "U", "!", "D">>), Str(<<"=", "=">>), Str(<<"Q">>),
     Str(<<"Q", "U", "J", "D">>), Str(<<"Q", "Q", "=", "=">>),
     Str(W_data \o <<",", "Q", "U", "J", "D">>), Num}

\* The bodies of the requests explored.
Bodies ==
    [typed_address : {Undefined, Str(<<>>), Str(Address_LekkiLagos)},
     utility_bill : Documents,
     id_document : Documents]

\* NextResponse.json(body, {status}), and the request over.
Respond(status, body) == [post EXCEPT !.at = "responded",
                                      !.response = [status |-> status, body |-> body]]

\* The catch of POST (lines 327-335).
VerificationFailed == Respond(500, "Verification failed")

\* POST(request) up to await request.json().
POST(body) ==
    /\ pc = "idle"
    /\ pc' = "routing"
    /\ post' = [post EXCEPT !.at = "json", !.body = body]
    /\ UNCHANGED <<database, worker, utilityBillData, providedAddress, providedFullName,
                   extractedText, result, error, metrics, scoring, normalized,
                   boosts, naming, calls, ocrs, workers, scan,
                   rateLimitMap, now, response, admitted>>

\* request.json() rejects (the body is not JSON): the catch of POST.
jsonRejects ==
    /\ pc = "routing"
    /\ post.at = "json"
    /\ post' = VerificationFailed
    /\ UNCHANGED <<pc, database, worker, utilityBillData, providedAddress, providedFullName,
                   extractedText, result, error, metrics, scoring, normalized,
                   boosts, naming, calls, ocrs, workers, scan,
                   rateLimitMap, now, response, admitted>>

\* request.json() resolves: the validation, and verifyUtilityBillAddress called
\* on the utility bill.
validate ==
    /\ pc = "routing"
    /\ post.at = "json"
    /\ post' = IF Validation(post.body) = "ok"
               THEN [post EXCEPT !.at = "utilityOCR",
                                 !.log = <<"validation", "utilityOCR">>]
               ELSE IF Validation(post.body) = "TypeError"
               THEN [VerificationFailed EXCEPT !.log = <<"validation">>]
               ELSE [Respond(400, Validation(post.body)) EXCEPT !.log = <<"validation">>]
    /\ UNCHANGED <<pc, database, worker, utilityBillData, providedAddress, providedFullName,
                   extractedText, result, error, metrics, scoring, normalized,
                   boosts, naming, calls, ocrs, workers, scan,
                   rateLimitMap, now, response, admitted>>

\* The steps awaited one after the other once the validation has passed.
Steps ==
    <<"utilityOCR", "utilityValidity", "idOCR", "idValidity", "zoning", "geolocation",
      "save">>

\* The 500 response of the catch around each of the four OCR and validity steps.
StepError ==
    [utilityOCR |-> "Utility Bill OCR verification failed",
     utilityValidity |-> "Utility Bill document validity check failed",
     idOCR |-> "ID Document OCR verification failed",
     idValidity |-> "ID Document validity check failed"]

\* The step after step.
NextStep(step) == Steps[(CHOOSE k \in 1..Len(Steps) : Steps[k] = step) + 1]

\* The awaited call of one of the four OCR and validity steps resolves with
\* value, and the next step is called.
stepResolves(value) ==
    /\ pc = "routing"
    /\ post.at \in DOMAIN StepError
    /\ post' = [post EXCEPT !.at = NextStep(post.at),
                            !.log = Append(post.log, NextStep(post.at)),
                            !.results = Append(post.results, value)]
    /\ UNCHANGED <<pc, database, worker, utilityBillData, providedAddress, providedFullName,
                   extractedText, result, error, metrics, scoring, normalized,
                   boosts, naming, calls, ocrs, workers, scan,
                   rateLimitMap, now, response, admitted>>

\* stepRejects with a catch that logs and does not return.
stepRejects_FallsThrough ==
    /\ pc = "routing"
    /\ post.at \in DOMAIN StepError
    /\ post' = [post EXCEPT !.at = NextStep(post.at),
                            !.log = Append(post.log, NextStep(post.at)),
                            !.results = Append(post.results, FALSE),
                            !.failed = post.at]
    /\ UNCHANGED <<pc, database, worker, utilityBillData, providedAddress, providedFullName,
                   extractedText, result, error, metrics, scoring, normalized,
                   boosts, naming, calls, ocrs, workers, scan,
                   rateLimitMap, now, response, admitted>>

\* The awaited call of one of the four OCR and validity steps rejects: the
\* catch around it returns 500.
stepRejects ==
    /\ pc = "routing"
    /\ post.at \in DOMAIN StepError
    /\ post' = [Respond(500, StepError[post.at]) EXCEPT !.failed = post.at]
    /\ UNCHANGED <<pc, database, worker, utilityBillData, providedAddress, providedFullName,
                   extractedText, result, error, metrics, scoring, normalized,
                   boosts, naming, calls, ocrs, workers, scan,
                   rateLimitMap, now, response, admitted>>

\* verifyZoningCadastral returns, passed or not (it catches its own errors and
\* returns passed: false), and getIpAndLocation is called.
verifyZoningCadastral(passed) ==
    /\ pc = "routing"
    /\ post.at = "zoning"
    /\ post' = [post EXCEPT !.at = "geolocation",
                            !.log = Append(post.log, "geolocation"),
                            !.zoningCadastralResult = [passed |-> passed]]
    /\ UNCHANGED <<pc, database, worker, utilityBillData, providedAddress, providedFullName,
                   extractedText, result, error, metrics, scoring, normalized,
                   boosts, naming, calls, ocrs, workers, scan,
                   rateLimitMap, now, response, admitted>>

\* The verificationResult assembled at lines 290-315, as far as it is modelled.
verificationResult ==
    [address_match |-> post.results[1],
     id_address_match |-> post.results[3],
     zoning_cadastral |-> post.zoningCadastralResult]

\* getIpAndLocation returns (it catches its own errors), the result is
\* assembled and prisma.verificationResult.create called.
getIpAndLocation ==
    /\ pc = "routing"
    /\ post.at = "geolocation"
    /\ post' = [post EXCEPT !.at = "save", !.log = Append(post.log, "save")]
    /\ UNCHANGED <<pc, database, worker, utilityBillData, providedAddress, providedFullName,
                   extractedText, result, error, metrics, scoring, normalized,
                   boosts, naming, calls, ocrs, workers, scan,
                   rateLimitMap, now, response, admitted>>

\* prisma.verificationResult.create resolves: the row is written and the
\* result returned with status 200.
createResolves ==
    /\ pc = "routing"
    /\ post.at = "save"
    /\ database' = Append(database, [result |-> verificationResult, payload |-> post.body])
    /\ post' = Respond(200, verificationResult)
    /\ UNCHANGED <<pc, worker, utilityBillData, providedAddress, providedFullName,
                   extractedText, result, error, metrics, scoring, normalized,
                   boosts, naming, calls, ocrs, workers, scan,
                   rateLimitMap, now, response, admitted>>

\* prisma.verificationResult.create rejects, or prisma is not bound (route.ts
\* does not import it): the catch of POST.
createRejects ==
    /\ pc = "routing"
    /\ post.at = "save"
    /\ post' = VerificationFailed
    /\ UNCHANGED <<pc, database, worker, utilityBillData, providedAddress, providedFullName,
                   extractedText, result, error, metrics, scoring, normalized,
                   boosts, naming, calls, ocrs, workers, scan,
                   rateLimitMap, now, response, admitted>>

\* ------------------------------------------------------------------ specifications

Verify == \E request \in Requests : verifyUtilityBillAddress(request)

CompareBlocks == \E block1 \in Blocks, block2 \in Blocks : Compare(block1, block2)

FloorBoosts ==
    \E blockScore \in BlockScores(ScoreSteps), blockCount \in 0..MaxProvidedBlocks :
        FloorBoost(blockScore, blockCount)

ParallelCalls ==
    \E c \in 1..MaxCalls :
        \/ \E request \in ParallelRequests : startCall(c, request)
        \/ createWorkerResolves(c)
        \/ createWorkerRejects(c)
        \/ tryRecognize(c)
        \/ recognizeResolves(c)
        \/ recognizeRejects(c)
        \/ terminateWorker(c)
        \/ workerTerminated(c)

\* The strings scanned: every string over {a, b} of at most MaxScanLen
\* characters, and words with matched positions out of order or apart.
ScanStrings ==
    SmallStrings(MaxScanLen) \cup {W_martha, W_marhta, W_lekki, W_leki, W_lekkipeninsula}

JaroScans ==
    \/ \E str1 \in ScanStrings, str2 \in ScanStrings : scanStart(str1, str2)
    \/ scanFor
    \/ scanWhile
    \/ scanIf

RateLimits ==
    \/ \E api \in BOOLEAN, ip \in ClientIPs : middleware(api, ip)
    \/ \E d \in Ticks : tick(d)

Posts ==
    \/ \E body \in Bodies : POST(body)
    \/ jsonRejects
    \/ validate
    \/ \E value \in BOOLEAN : stepResolves(value)
    \/ stepRejects
    \/ \E passed \in BOOLEAN : verifyZoningCadastral(passed)
    \/ getIpAndLocation
    \/ createResolves
    \/ createRejects

MatchNames ==
    \E name \in NamesOf(MaxNameTokens), text \in NameTexts : MatchName(name, text)

NormalizeTexts == \E text \in Texts(MaxPieces) : Normalize(text)

ScoreMatches ==
    \E providedCount \in 0..MaxProvidedBlocks :
        \E counts \in MatchCounts(providedCount), nameScore \in NameScores :
            Score(providedCount, counts, nameScore)

Next ==
    \/ Verify
    \/ initialize
    \/ initializeFails
    \/ processUtilityBill
    \/ recognizeFails
    \/ terminate
    \/ CompareBlocks
    \/ ScoreMatches
    \/ NormalizeTexts
    \/ FloorBoosts
    \/ MatchNames
    \/ ParallelCalls
    \/ JaroScans
    \/ RateLimits
    \/ Posts

Spec == Init /\ [][Next]_vars

\* The metrics alone, on every pair of blocks.
SpecMetrics == Init /\ [][CompareBlocks]_vars

\* The scoring alone, on every block-match result.
SpecScoring == Init /\ [][ScoreMatches]_vars

\* normalizeText alone, on every text.
SpecNormalize == Init /\ [][NormalizeTexts]_vars

\* The floor boosts alone, on every block score and number of matches.
SpecBoosts == Init /\ [][FloorBoosts]_vars

\* The name matchers alone, on every name and text.
SpecNames == Init /\ [][MatchNames]_vars

\* The concurrent calls alone, interleaved at every await.
SpecParallel == Init /\ [][ParallelCalls]_vars

\* The POST handler alone, on every body and every outcome of its steps.
SpecRoute == Init /\ [][Posts]_vars

\* The middleware alone, on requests of every client at every time.
SpecMiddleware == Init /\ [][RateLimits]_vars

\* The transposition scan alone: synchronous code, which runs on as long as it
\* has a step to take.
SpecScan == Init /\ [][JaroScans]_vars /\ WF_vars(JaroScans)

\* ------------------------------------------------------------------ properties

\* The call returned an OCRResult.
Returned == pc = "returned"

\* The whitespace tokens of the normalized provided address of the result.
AddressTokens == SelectSeq(Split(result.normalizedProvidedAddress, {" "}), NonEmpty)

\* The window of 5 consecutive address tokens that starts at token i.
Window(i) == JoinSpace(SubSeq(AddressTokens, i, i + 4))

\* The windows that are substrings of the normalized extracted text.
WindowsInText ==
    {i \in 1..(Len(AddressTokens) - 4) : includes(result.normalizedExtractedText, Window(i))}

\* C1: for a provided address of at least 5 normalized tokens, addressMatched
\* is true exactly when some window of 5 consecutive tokens is a substring of
\* the normalized extracted text; matchedNgram is then the leftmost such window
\* (5 tokens, non-empty) and is empty otherwise.  "15 Adelabu Street Surulere
\* Lagos" against a text containing that phrase gives addressMatched = true.
C1_StrictNgramGate ==
    (Returned /\ Len(AddressTokens) >= 5) =>
        /\ result.addressMatched = (WindowsInText # {})
        /\ WindowsInText # {} =>
               /\ \E i \in WindowsInText :
                      /\ \A o \in WindowsInText : i <= o
                      /\ result.matchedNgram = Window(i)
               /\ result.matchedNgram # <<>>
               /\ Len(SelectSeq(Split(result.matchedNgram, {" "}), NonEmpty)) = 5
        /\ WindowsInText = {} => result.matchedNgram = <<>>
        /\ (/\ providedAddress = Address_Adelabu
            /\ includes(result.normalizedExtractedText, normalizeText(Address_Adelabu)))
               => result.addressMatched

\* A 6-token address matched by its second window only.
C1_Witness ==
    /\ Returned
    /\ Len(AddressTokens) >= 6
    /\ result.addressMatched
    /\ 1 \notin WindowsInText
    /\ result.matchedNgram = Window(2)

\* C2: for a provided address of fewer than 5 normalized tokens, addressMatched
\* equals fuzzyAddressMatched and matchedNgram is empty.
C2_ShortAddressFallback ==
    (Returned /\ Len(AddressTokens) < 5) =>
        /\ result.addressMatched = result.fuzzyAddressMatched
        /\ result.strictAddressMatched = result.fuzzyAddressMatched
        /\ result.matchedNgram = <<>>

\* "Lekki Lagos" accepted by the fuzzy verdict, hence by the strict one.
C2_Witness ==
    /\ Returned
    /\ providedAddress = Address_LekkiLagos
    /\ Len(AddressTokens) = 2
    /\ result.fuzzyAddressMatched
    /\ result.addressMatched

\* The forced-100 rule fired on the block-match result scored.
ForcedFull == scoring.totalMatches >= 5 /\ RLt(Rat(75, 100), scoring.blockScore)

Candidates(p) ==
    LET extractedBlocks == result.blockMatchDetails.extractedBlocks
    IN  {<<extractedBlocks[k], calculateAdvancedBlockSimilarity(p, extractedBlocks[k])>> :
            k \in 1..Len(extractedBlocks)}

\* The matches recorded for provided block p agree with its candidates: at most
\* one match, one exactly when the best candidate reaches 0.70, and that match
\* is a candidate no other candidate beats.
MatchesAgree(p, matches, candidates) ==
    /\ Cardinality(matches) <= 1
    /\ (matches # {}) = (\E c \in candidates : RLe(Rat(70, 100), c[2]))
    /\ \A k \in matches :
           LET m == result.blockMatchDetails.matchedBlocks[k]
           IN  /\ <<m.matched, m.similarity>> \in candidates
               /\ \A c \in candidates : RLe(c[2], m.similarity)

\* C4: matchBlocks records at most one match per provided block, with an
\* extracted block of maximal combined similarity, and records it if and only
\* if that similarity is >= 0.70; so totalMatches = |matchedBlocks| <=
\* |providedBlocks| and every recorded similarity is >= 0.70.
C4_BlockAcceptance ==
    Returned =>
        LET details == result.blockMatchDetails
        IN  /\ details.totalMatches = Len(details.matchedBlocks)
            /\ Len(details.matchedBlocks) <= Len(details.providedBlocks)
            /\ \A k \in 1..Len(details.matchedBlocks) :
                   /\ RLe(Rat(70, 100), details.matchedBlocks[k].similarity)
                   /\ \E j \in 1..Len(details.providedBlocks) :
                          details.providedBlocks[j] = details.matchedBlocks[k].provided
            /\ \A j \in 1..Len(details.providedBlocks) :
                   MatchesAgree(details.providedBlocks[j],
                                {k \in 1..Len(details.matchedBlocks) :
                                    details.matchedBlocks[k].provided =
                                        details.providedBlocks[j]},
                                Candidates(details.providedBlocks[j]))

\* Some provided blocks matched and some rejected, a match being a 2-character
\* block at exactly 0.70.
C4_Witness ==
    /\ Returned
    /\ result.blockMatches >= 1
    /\ result.blockMatches < result.totalBlocks
    /\ \E k \in 1..Len(result.blockMatchDetails.matchedBlocks) :
           result.blockMatchDetails.matchedBlocks[k].similarity = Rat(70, 100)

\* C5: blockScore is the sum of the accepted similarities divided by the number
\* of provided blocks, and 0 (not a division by zero) when there is none.
C5_BlockScore ==
    Returned =>
        LET details == result.blockMatchDetails
            accepted == SumRat([k \in 1..Len(details.matchedBlocks) |->
                                   details.matchedBlocks[k].similarity])
        IN  IF Len(details.providedBlocks) = 0
            THEN details.blockScore = Zero
            ELSE /\ ~IsNaN(details.blockScore)
                 /\ RMul(details.blockScore, Rat(Len(details.providedBlocks), 1)) = accepted

\* Fewer accepted matches than provided blocks, and at least one.
C5_Witness ==
    /\ Returned
    /\ Len(result.blockMatchDetails.matchedBlocks) >= 1
    /\ Len(result.blockMatchDetails.matchedBlocks)
           < Len(result.blockMatchDetails.providedBlocks)
    /\ RLt(Zero, result.blockMatchDetails.blockScore)

\* x is the larger of y and the integer n.
IsMaxOf(x, y, n) ==
    /\ RLe(y, x)
    /\ RLe(Rat(n, 1), x)
    /\ x = y \/ x = Rat(n, 1)

\* C6: with addressScore = blockScore * 100, finalAddressScore is 100 when
\* totalMatches >= 5 and blockScore > 0.75; otherwise max(addressScore, 85)
\* when totalMatches >= 5; otherwise max(addressScore, 75) when totalMatches is
\* 3 or 4; otherwise addressScore.
C6_FloorBoosts ==
    pc = "scored" =>
        /\ scoring.addressScore[1] * scoring.blockScore[2]
               = 100 * scoring.blockScore[1] * scoring.addressScore[2]
        /\ CASE ForcedFull -> scoring.finalAddressScore = Rat(100, 1)
             [] ~ForcedFull /\ scoring.totalMatches >= 5 ->
                    IsMaxOf(scoring.finalAddressScore, scoring.addressScore, 85)
             [] scoring.totalMatches \in {3, 4} ->
                    IsMaxOf(scoring.finalAddressScore, scoring.addressScore, 75)
             [] scoring.totalMatches < 3 ->
                    scoring.finalAddressScore = scoring.addressScore

\* Four matches whose address score is below 75 are raised to 75.
C6_Witness ==
    /\ pc = "scored"
    /\ scoring.totalMatches = 4
    /\ RLt(scoring.addressScore, Rat(75, 1))
    /\ scoring.finalAddressScore = Rat(75, 1)

\* C7: fuzzyAddressMatched is finalAddressScore >= threshold * 100, the
\* threshold being 0.85 when totalMatches >= 5 and 0.75 otherwise.
C7_FuzzyVerdict ==
    pc = "scored" =>
        scoring.fuzzyAddressMatched =
            IF scoring.totalMatches >= 5
            THEN scoring.finalAddressScore[1] >= 85 * scoring.finalAddressScore[2]
            ELSE scoring.finalAddressScore[1] >= 75 * scoring.finalAddressScore[2]

\* Three matches raised to exactly 75 pass the 0.75 threshold.
C7_Witness ==
    /\ pc = "scored"
    /\ scoring.totalMatches = 3
    /\ scoring.finalAddressScore = Rat(75, 1)
    /\ scoring.fuzzyAddressMatched

\* C8: the combined similarity of a non-empty normalized block with itself is 1.
C8_ExactMatchSaturates ==
    (pc = "compared" /\ metrics.norm1 = metrics.norm2 /\ metrics.norm1 # <<>>) =>
        metrics.combined = One

\* C9: the scenario address "Plot 45, Block C, Lekki Peninsula Residential
\* Scheme, Eti Osa, Lagos" against the text "PLOT45 BLOCKC LEKKI PENINSULA
\* RESIDENTIAL SCHEME ETIOSA LAGOS" yields totalMatches >= 5 and a
\* finalAddressScore forced to 100.
C9_Scenario ==
    (Returned /\ providedAddress = Address_Scenario /\ extractedText = Bill_Scenario) =>
        /\ result.blockMatches >= 5
        /\ result.finalAddressScore = Rat(100, 1)

\* x is a number of [0, 1].
InUnit(x) == ~IsNaN(x) /\ RLe(Zero, x) /\ RLe(x, One)

\* x is a number of [0, 100].
InPercent(x) == ~IsNaN(x) /\ RLe(Zero, x) /\ RLe(x, Rat(100, 1))

\* C10: matchScore and nameScore are integers of [0, 100], finalAddressScore
\* is in [0, 100], blockScore is in [0, 1], and every metric (substring,
\* Levenshtein, Jaro-Winkler, phonetic, combined) is in [0, 1]; no division by
\* zero (NaN) occurs for empty block sets, empty strings or empty token lists.
C10_OutputRanges ==
    /\ Returned =>
           /\ result.matchScore \in 0..100
           /\ result.nameScore \in 0..100
           /\ InPercent(result.finalAddressScore)
           /\ InUnit(result.blockMatchDetails.blockScore)
           /\ \A k \in 1..Len(result.blockMatchDetails.matchedBlocks) :
                  InUnit(result.blockMatchDetails.matchedBlocks[k].similarity)
    /\ pc = "scored" =>
           /\ scoring.matchScore \in 0..100
           /\ InPercent(scoring.finalAddressScore)
           /\ InUnit(scoring.blockScore)
    /\ pc = "compared" =>
           /\ InUnit(metrics.substring)
           /\ InUnit(metrics.levenshtein)
           /\ InUnit(metrics.jaro)
           /\ InUnit(metrics.phonetic)
           /\ InUnit(metrics.combined)

\* An empty provided address (no provided block) and a name without a letter
\* (no name token): blockScore 0, nameScore 100 and matchScore 30.
C10_Witness ==
    /\ Returned
    /\ providedFullName = Name_Digits
    /\ result.totalBlocks = 0
    /\ result.blockMatchDetails.blockScore = Zero
    /\ result.nameScore = 100
    /\ result.matchScore = 30

\* C11: normalization is idempotent: normalizeText(normalizeText(s)) =
\* normalizeText(s) for every string s, including strings with the misspellings
\* it folds, underscores, punctuation and repeated whitespace.
C11_NormalizeIdempotent ==
    pc = "normalized" => normalized.twice = normalized.once

\* A text with a misspelling put together from two pieces next to an
\* underscore, punctuation and repeated whitespace, that normalization changes.
C11_Witness ==
    /\ pc = "normalized"
    /\ normalized.once # normalized.text
    /\ includes(normalized.once, W_lagos)
    /\ ~includes(toLowerCase(normalized.text), W_lagos)
    /\ normalized.twice = normalized.once

\* C12: for a fixed blockScore, finalAddressScore is non-decreasing in
\* totalMatches: one more match never lowers it, in particular from 4 to 5
\* matches with blockScore > 0.75.
C12_ThresholdMonotone ==
    pc = "boosted" =>
        /\ RLe(boosts.finalAddressScore, boosts.withOneMore)
        /\ (boosts.totalMatches = 4 /\ RLt(Rat(75, 100), boosts.blockScore))
               => boosts.withOneMore = Hundred

\* From 4 to 5 matches with blockScore > 0.75: raised to the forced 100.
C12_Witness ==
    /\ pc = "boosted"
    /\ boosts.totalMatches = 4
    /\ RLt(Rat(75, 100), boosts.blockScore)
    /\ RLt(boosts.finalAddressScore, Hundred)
    /\ boosts.withOneMore = Hundred

\* The tokens of the normalized (letters and spaces) provided name.
NameTokens(name) == SelectSeq(Split(NormalizeProvidedName(name), {" "}), NonEmpty)

\* The whitespace-split tokens of the normalized text.
TextTokens(text) == Split(NormalizeNameText(text), SpaceChars)

\* The normalized name is a verbatim substring of the normalized text.
NameFound(name, text) == includes(NormalizeNameText(text), NormalizeProvidedName(name))

\* The best Levenshtein similarity of token against the tokens of text.
BestSimilarity(token, text) ==
    LET sims == {calculateLevenshteinSimilarity(token, TextTokens(text)[k]) :
                    k \in 1..Len(TextTokens(text))} \cup {Zero}
    IN  CHOOSE best \in sims : \A sim \in sims : RLe(sim, best)

\* The average over the name tokens of the best similarity of each (at least
\* one token).
AverageBest(name, text) ==
    RDivInt(SumRat([k \in 1..Len(NameTokens(name)) |->
                       BestSimilarity(NameTokens(name)[k], text)]),
            Len(NameTokens(name)))

\* score is 100 x ratio rounded to the nearest integer (halves up).
IsRoundedPercent(score, ratio) ==
    /\ score \in 0..100
    /\ (2 * score - 1) * ratio[2] <= 200 * ratio[1]
    /\ 200 * ratio[1] < (2 * score + 1) * ratio[2]

\* nameScore is the score the claim gives to name against text.
IsNameScore(nameScore, name, text) ==
    IF NameFound(name, text) THEN nameScore = 100
    ELSE IsRoundedPercent(nameScore, AverageBest(name, text))

\* C13 as stated: nameScore is 100 if the normalized provided name is a
\* substring of the normalized text, otherwise round(100 x the average over the
\* name tokens of the best Levenshtein similarity against the text tokens), and
\* nameMatched is true if and only if nameScore >= 50.
C13_NameScore ==
    /\ pc = "named" => IsNameScore(naming.nameScore, naming.name, naming.text)
    /\ Returned =>
           /\ IsNameScore(result.nameScore, providedFullName, extractedText)
           /\ result.nameMatched = (result.nameScore >= 50)

\* C13 amended: the same for every non-empty providedFullName; for the empty
\* providedFullName nameScore is 0 although the empty normalized name is a
\* substring of every text.
C13_NameScoreOfNonEmptyName ==
    /\ pc = "named" =>
           IF naming.name = <<>> THEN naming.nameScore = 0
           ELSE IsNameScore(naming.nameScore, naming.name, naming.text)
    /\ Returned =>
           /\ IF providedFullName = <<>> THEN result.nameScore = 0
              ELSE IsNameScore(result.nameScore, providedFullName, extractedText)
           /\ result.nameMatched = (result.nameScore >= 50)

\* A name of two tokens not found verbatim, one token found exactly and the
\* other approximately: a score strictly between 50 and 100.
C13_Witness ==
    /\ pc = "named"
    /\ Len(NameTokens(naming.name)) = 2
    /\ ~NameFound(naming.name, naming.text)
    /\ naming.nameScore > 50
    /\ naming.nameScore < 100

\* C14: when the normalized name is not a verbatim substring of the text, the
\* boolean name matcher returns matched = true if and only if ratio >= 0.6,
\* ratio being the average over the name tokens of each token's best
\* Levenshtein similarity against the text's tokens.
C14_BooleanNameMatcher ==
    (pc = "named" /\ naming.name # <<>> /\ ~NameFound(naming.name, naming.text)) =>
        naming.matchedFullName.matched =
            RLe(Rat(6, 10), AverageBest(naming.name, naming.text))

\* token is one of the tokens of the normalized text.
Appears(token, text) == \E k \in 1..Len(TextTokens(text)) : TextTokens(text)[k] = token

\* C15: for the name "John Adeyemi Okafor" and a text in which the tokens
\* "john" and "okafor" appear and no token is similar to "adeyemi", the boolean
\* name matcher computes ratio = 2/3 and returns matched = true.
C15_NameMatchBoundary ==
    (/\ pc = "named"
     /\ NameTokens(naming.name)
            = <<toLowerCase(W_John), toLowerCase(W_Adeyemi), toLowerCase(W_Okafor)>>
     /\ Appears(toLowerCase(W_John), naming.text)
     /\ Appears(toLowerCase(W_Okafor), naming.text)
     /\ RLt(BestSimilarity(toLowerCase(W_Adeyemi), naming.text), Rat(8, 10))) =>
        /\ naming.matchedFullName.ratio = Rat(2, 3)
        /\ naming.matchedFullName.matched
        /\ naming.matchedFullName.value = naming.name

\* "John Adeyemi Okafor" against "OKAFOR, JOHN\n12 Ade Road": 2 of 3 tokens.
C15_Witness ==
    /\ pc = "named"
    /\ naming.name = Name_JohnAdeyemiOkafor
    /\ naming.text = Text_OkaforJohn
    /\ Appears(toLowerCase(W_John), naming.text)
    /\ Appears(toLowerCase(W_Okafor), naming.text)
    /\ RLt(BestSimilarity(toLowerCase(W_Adeyemi), naming.text), Rat(8, 10))
    /\ naming.matchedFullName.matched

\* C16: a non-empty providedFullName with no letter (only digits, punctuation
\* or whitespace) yields nameScore 0 and nameMatched = false for every
\* extracted text.
C16_LetterlessName ==
    (/\ Returned
     /\ providedFullName # <<>>
     /\ \A k \in 1..Len(providedFullName) :
            ToLowerChar(providedFullName[k]) \notin LowerLetters) =>
        /\ result.nameScore = 0
        /\ ~result.nameMatched

Recognized ==
    \/ Returned
    \/ /\ pc = "thrown"
       /\ error = "OCR failed: No text could be extracted from the document"

\* C18: when the extracted text produces no extracted blocks (the empty text
\* above all), the engine returns a degenerate result rather than failing:
\* totalMatches = 0, blockScore = 0, addressMatched = false and matchScore =
\* round(0.3 x nameScore).
C18_EmptyExtractedText ==
    (Recognized /\ extractEnhancedTextBlocks(extractedText) = <<>>) =>
        /\ Returned
        /\ result.blockMatches = 0
        /\ result.blockMatchDetails.blockScore = Zero
        /\ ~result.addressMatched
        /\ (2 * result.matchScore - 1) * 10 <= 6 * result.nameScore
        /\ 6 * result.nameScore < (2 * result.matchScore + 1) * 10

\* C19: an empty provided address yields zero provided blocks, blockScore = 0,
\* totalMatches = 0, finalAddressScore = 0 and addressMatched =
\* fuzzyAddressMatched = false (the short-address fallback), for every
\* extracted text.
C19_EmptyProvidedAddress ==
    (Returned /\ providedAddress = <<>>) =>
        /\ result.blockMatchDetails.providedBlocks = <<>>
        /\ result.totalBlocks = 0
        /\ result.blockMatchDetails.blockScore = Zero
        /\ result.blockMatches = 0
        /\ result.finalAddressScore = Zero
        /\ ~result.addressMatched
        /\ ~result.fuzzyAddressMatched
        /\ result.matchedNgram = <<>>

\* An empty provided address against a text that has extracted blocks.
C19_Witness ==
    /\ Returned
    /\ providedAddress = <<>>
    /\ result.blockMatchDetails.extractedBlocks # <<>>
    /\ ~result.addressMatched
    /\ result.finalAddressScore = Zero

\* The tokens of the normalized extracted text of the result.
ExtractedTokens == Split(result.normalizedExtractedText, {" "})

\* The tokens of more than one character of the normalized provided address.
LongAddressTokens == SelectSeq(AddressTokens, LAMBDA token : Len(token) > 1)

\* The address has at least 5 tokens, every token of more than one character
\* is a token of the extracted text, and no 5 consecutive tokens occur
\* contiguously in it.
Scattered ==
    /\ Returned
    /\ Len(AddressTokens) >= 5
    /\ \A k \in 1..Len(LongAddressTokens) :
           \E j \in 1..Len(ExtractedTokens) : ExtractedTokens[j] = LongAddressTokens[k]
    /\ WindowsInText = {}

\* blockScore > 0 and totalMatches >= 1 while the strict verdict is false.
DivergentVerdicts ==
    /\ RLt(Zero, result.blockMatchDetails.blockScore)
    /\ result.blockMatches >= 1
    /\ ~result.addressMatched

\* C20 as stated: if every token (length > 1) of a provided address of at least
\* 5 tokens occurs as a separate token in the extracted text but no 5
\* consecutive provided tokens occur contiguously, then blockScore > 0 and
\* totalMatches >= 1 while addressMatched is false.
C20_ScatteredTokens == Scattered => DivergentVerdicts

\* C20 amended: the same when the provided address has at least one token of
\* more than one character; every such token is then an accepted match.  An
\* address of one-character tokens yields no provided block and blockScore 0.
C20_ScatteredLongTokens ==
    Scattered =>
        IF LongAddressTokens = <<>>
        THEN result.totalBlocks = 0 /\ result.blockMatchDetails.blockScore = Zero
        ELSE /\ DivergentVerdicts
             /\ \A k \in 1..Len(LongAddressTokens) :
                    \E j \in 1..Len(result.matchingBlocks) :
                        result.matchingBlocks[j] = LongAddressTokens[k]

\* The address words against the text that holds them in reverse order: at
\* least 5 accepted matches and a fuzzy verdict of true, a strict one of false.
C20_Witness ==
    /\ Scattered
    /\ extractedText = Bill_Scattered
    /\ result.blockMatches >= 5
    /\ result.fuzzyAddressMatched
    /\ ~result.addressMatched

\* ------------------------------------------------------------------ C21

\* The matchType of a recorded match follows its similarity: exact from 0.95,
\* fuzzy from 0.8 to 0.95, partial from 0.7 to 0.8.
Classified(m) ==
    /\ (m.matchType = "exact") = RLe(Rat(95, 100), m.similarity)
    /\ (m.matchType = "fuzzy") =
           (RLe(Rat(8, 10), m.similarity) /\ RLt(m.similarity, Rat(95, 100)))
    /\ (m.matchType = "partial") =
           (RLe(Rat(7, 10), m.similarity) /\ RLt(m.similarity, Rat(8, 10)))

\* C21: every recorded BlockMatch has matchType exact iff its similarity is
\* >= 0.95, fuzzy iff it is in [0.8, 0.95) and partial iff it is in [0.7, 0.8),
\* and a provided block identical to an extracted block is recorded as exact.
C21_MatchTypeClassification ==
    Returned =>
        LET details == result.blockMatchDetails
        IN  /\ \A k \in 1..Len(details.matchedBlocks) :
                   Classified(details.matchedBlocks[k])
            /\ \A j \in 1..Len(details.providedBlocks) :
                   InList(details.extractedBlocks, details.providedBlocks[j]) =>
                       \E k \in 1..Len(details.matchedBlocks) :
                           /\ details.matchedBlocks[k].provided = details.providedBlocks[j]
                           /\ details.matchedBlocks[k].matchType = "exact"

\* ------------------------------------------------------------------ C22

\* b occurs in a as a run of consecutive characters.
Contains(a, b) ==
    \E i \in 0..(Len(a) - Len(b)) : SubSeq(a, i + 1, i + Len(b)) = b

\* score = min(len a, len b) / max(len a, len b)
IsLengthRatio(score, a, b) ==
    RMul(score, Rat(Max2(Len(a), Len(b)), 1)) = Rat(Min2(Len(a), Len(b)), 1)

\* The metric of the compared pair is the same with its arguments exchanged.
SubstringSymmetric ==
    metrics.substring = calculateSubstringMatch(metrics.norm2, metrics.norm1)

\* C22: if either string, being of length >= 3, contains the other, the
\* substring score is min(len a, len b) / max(len a, len b), otherwise it is 0;
\* the metric is symmetric in its arguments.
C22_SubstringContainment ==
    pc = "compared" =>
        LET a == metrics.norm1
            b == metrics.norm2
        IN  /\ IF \/ Len(a) >= 3 /\ Contains(a, b)
                  \/ Len(b) >= 3 /\ Contains(b, a)
               THEN IsLengthRatio(metrics.substring, a, b)
               ELSE metrics.substring = Zero
            /\ SubstringSymmetric

\* C22, amended: if both strings have length >= 3 and either contains the
\* other, the substring score is min(len a, len b) / max(len a, len b),
\* otherwise (one of them shorter than 3 characters included) it is 0; the
\* metric is symmetric in its arguments.
C22_SubstringOfLongStrings ==
    pc = "compared" =>
        LET a == metrics.norm1
            b == metrics.norm2
        IN  /\ IF /\ Len(a) >= 3
                  /\ Len(b) >= 3
                  /\ (Contains(a, b) \/ Contains(b, a))
               THEN IsLengthRatio(metrics.substring, a, b)
               ELSE metrics.substring = Zero
            /\ SubstringSymmetric

\* "lekki" compared with "lekkipeninsula", which contains it: 5/14.
C22_Witness ==
    /\ pc = "compared"
    /\ metrics.norm1 = W_lekki
    /\ metrics.norm2 = W_lekkipeninsula
    /\ metrics.substring = Rat(5, 14)

\* ------------------------------------------------------------------ C23

\* What call c, settled, would have produced run alone on its document,
\* address and name: the OCRResult of the extracted text, or one of the errors
\* of its own document or of its own worker.
AsAlone(call) ==
    IF call.pc = "returned"
    THEN /\ call.utilityBillData # Data_Unsupported
         /\ ~TextRejected(call.extractedText)
         /\ call.result = MatchResult(call.extractedText, call.providedAddress,
                                      call.providedFullName)
    ELSE \/ call.error \in {"createWorker", "OCR failed: recognize"}
         \/ /\ call.error = "OCR failed: Unsupported image format"
            /\ call.utilityBillData = Data_Unsupported
         \/ /\ call.error = "OCR failed: No text could be extracted from the document"
            /\ TextRejected(call.extractedText)

\* The calls that have settled.
SettledCalls == {c \in 1..MaxCalls : calls[c].pc \in {"returned", "thrown"}}

\* C23: the match result is a function of (providedAddress, providedFullName,
\* extractedText) alone, and concurrent calls, each with its own UtilityBillOCR
\* instance and worker, interleaved in any way, each settle as they would alone.
C23_ParallelSafety ==
    /\ \A c \in SettledCalls : AsAlone(calls[c])
    /\ \A c \in 1..MaxCalls : \A d \in 1..MaxCalls :
           (/\ calls[c].pc = "returned"
            /\ calls[d].pc = "returned"
            /\ calls[c].extractedText = calls[d].extractedText
            /\ calls[c].providedAddress = calls[d].providedAddress
            /\ calls[c].providedFullName = calls[d].providedFullName) =>
               calls[c].result = calls[d].result

\* Call 2 started after call 1 had its worker, and returned its result while
\* call 1 was still recognizing on its own worker.
C23_Witness ==
    /\ calls[1].pc = "recognize"
    /\ calls[1].recognizes = 1
    /\ calls[1].utilityBillData = Bill_Short
    /\ calls[2].pc = "returned"
    /\ calls[2].recognizes = 2
    /\ calls[2].result.nameMatched
    /\ workers[1].state = "running"
    /\ workers[2].state = "terminated"

\* ------------------------------------------------------------------ C24

\* The scan reads str2Matches[k] inside str2.
ScanInside == (pc = "scan" /\ scan.at \in {"while", "if"}) => scan.k <= Len(scan.str2)

\* The scan stopped with the transpositions that the similarity is computed from.
ScanAgrees ==
    (pc = "scanned" /\ scan.str1Matches # {}) =>
        scan.transpositions =
            CountTranspositions(scan.str1, scan.str2, scan.str1Matches, scan.str2Matches,
                                1, 1, 0)

\* C24: the matching computation terminates: in calculateJaroWinklerSimilarity
\* the scan while (!str2Matches[k]) k++ always stops at a k inside str2, the
\* matched positions of the two strings being equally many, and the loop ends.
C24_Termination ==
    /\ [](ScanInside /\ ScanAgrees)
    /\ [](pc = "scan" => Cardinality(scan.str1Matches) = Cardinality(scan.str2Matches))
    /\ (pc = "scan") ~> (pc = "scanned")

\* "martha" against "marhta": six matched positions, two of them out of order.
C24_Witness ==
    /\ pc = "scanned"
    /\ scan.str1 = W_martha
    /\ scan.str2 = W_marhta
    /\ Cardinality(scan.str1Matches) = 6
    /\ scan.transpositions = 2
    /\ scan.k = 7

\* ------------------------------------------------------------------ C25

\* C25: in every returned result strictAddressMatched = addressMatched,
\* addressMatch = addressMatched and nameMatched, blockMatches = totalMatches =
\* the length of matchingBlocks, totalBlocks = the number of provided blocks;
\* and for an address of at least 5 tokens addressMatched is decided by the
\* 5-token windows alone, whatever fuzzyAddressMatched is.
C25_VerdictFields ==
    Returned =>
        /\ result.strictAddressMatched = result.addressMatched
        /\ result.addressMatch = (result.addressMatched /\ result.nameMatched)
        /\ result.blockMatches = result.blockMatchDetails.totalMatches
        /\ result.blockMatches = Len(result.matchingBlocks)
        /\ result.totalBlocks = Len(result.blockMatchDetails.providedBlocks)
        /\ Len(AddressTokens) >= 5 => (result.addressMatched = (WindowsInText # {}))

\* The address "a b c d e" against the text "a\nb\nc\nd\ne": the window is in
\* the normalized text and addressMatched is true, while no block is provided
\* and fuzzyAddressMatched is false.
C25_Witness ==
    /\ Returned
    /\ providedAddress = Address_Letters
    /\ Len(AddressTokens) = 5
    /\ result.addressMatched
    /\ result.strictAddressMatched
    /\ ~result.fuzzyAddressMatched
    /\ result.totalBlocks = 0
    /\ result.blockMatches = 0
    /\ ~result.addressMatch

\* ------------------------------------------------------------------ C26

\* Call c has settled with no worker left: the reference of its instance is
\* null, and the worker it created, if createWorker resolved, is terminated.
Released(c) ==
    /\ ocrs[calls[c].ocr] = 0
    /\ workers[c].state = IF calls[c].error = "createWorker" THEN "none" ELSE "terminated"

\* C26: on every exit path of verifyUtilityBillAddress (result, OCR error,
\* unsupported input, failed worker creation) the worker created is terminated
\* and the instance's worker reference is null before the call settles; no
\* worker is recognized on after it has been terminated; and a call creates at
\* most one worker.
C26_WorkerLifecycle ==
    \A c \in 1..MaxCalls :
        /\ c \in SettledCalls => Released(c)
        /\ calls[c].pc = "recognize" => workers[calls[c].recognizes].state = "running"
        /\ workers[c].created <= 1

\* Call 1 rejected for an unsupported document after its worker was created
\* and terminated; call 2 rejected because createWorker failed.
C26_Witness ==
    /\ calls[1].pc = "thrown"
    /\ calls[1].error = "OCR failed: Unsupported image format"
    /\ workers[1] = [created |-> 1, state |-> "terminated"]
    /\ calls[2].pc = "thrown"
    /\ calls[2].error = "createWorker"
    /\ workers[2] = [created |-> 0, state |-> "none"]
    /\ ocrs = [i \in 1..MaxCalls |-> 0]

\* ------------------------------------------------------------------ C27

\* C27: fuzzyAddressMatched is true whenever totalMatches >= 3, whatever
\* blockScore is, and when totalMatches <= 2 it is true if and only if
\* blockScore * 100 >= 75.
C27_VolumeDecides ==
    pc = "boosted" =>
        IF boosts.totalMatches >= 3
        THEN boosts.fuzzyAddressMatched
        ELSE boosts.fuzzyAddressMatched =
                 RLe(Rat(75, 1), RMul(boosts.blockScore, Rat(100, 1)))

\* Three matches with a blockScore of 0: raised to 75, and the verdict true.
C27_Witness ==
    /\ pc = "boosted"
    /\ boosts.totalMatches = 3
    /\ boosts.blockScore = Zero
    /\ boosts.finalAddressScore = Rat(75, 1)
    /\ boosts.fuzzyAddressMatched

\* ------------------------------------------------------------------ C28

\* The step answers an /api/ request of client ip.
ApiRequest(ip) ==
    /\ now' = now
    /\ <<rateLimitMap, response, admitted>>' # <<rateLimitMap, response, admitted>>
    /\ response'.api
    /\ response'.ip = ip

\* The request of client ip arrives in the window of its record, resetTime
\* included, after RATE_LIMIT_MAX_REQUESTS requests were admitted in it.
WindowFull(ip) ==
    /\ rateLimitMap[ip] # None
    /\ now <= rateLimitMap[ip].resetTime
    /\ admitted[ip] >= RATE_LIMIT_MAX_REQUESTS

\* The request of client ip is the first one, or arrives after resetTime.
WindowOver(ip) == rateLimitMap[ip] = None \/ now > rateLimitMap[ip].resetTime

\* C28: for each client IP at most 10 requests are admitted between the
\* creation of its record and the record's resetTime; every further request in
\* that window, one arriving exactly at resetTime included, is answered 429
\* and leaves the record unchanged; the first request after resetTime is
\* admitted and starts a new window with count = 1; and a request never
\* changes the record of another IP.
C28_RateLimiter ==
    /\ [](\A ip \in ClientIPs : admitted[ip] <= RATE_LIMIT_MAX_REQUESTS)
    /\ [][\A ip \in ClientIPs :
              ApiRequest(ip) =>
                  /\ \A other \in ClientIPs \ {ip} :
                         rateLimitMap'[other] = rateLimitMap[other]
                  /\ IF WindowFull(ip)
                     THEN /\ response'.status = 429
                          /\ rateLimitMap'[ip] = rateLimitMap[ip]
                     ELSE /\ response'.status # 429
                          /\ admitted'[ip] = IF WindowOver(ip) THEN 1 ELSE admitted[ip] + 1
                          /\ WindowOver(ip) =>
                                 rateLimitMap'[ip] =
                                     [count |-> 1, resetTime |-> now + RATE_LIMIT_WINDOW]]_vars

\* The eleventh request of 10.0.0.1 arrives exactly at resetTime and is
\* answered 429, while the client 'unknown' is in the second request of a
\* later window.
C28_Witness ==
    /\ pc = "limiting"
    /\ rateLimitMap["10.0.0.1"] = [count |-> 10, resetTime |-> RATE_LIMIT_WINDOW]
    /\ now = RATE_LIMIT_WINDOW
    /\ response = [api |-> TRUE, ip |-> "10.0.0.1", status |-> 429]
    /\ admitted["10.0.0.1"] = 10
    /\ rateLimitMap["unknown"] = [count |-> 2, resetTime |-> 2 * RATE_LIMIT_WINDOW]

\* ---- C29

\* One of the checks of the validation has failed on the body of the request.
ValidationFails == post.body # None /\ Validation(post.body) \notin {"ok", "TypeError"}

\* The steps that have begun are the first steps of the fixed order.
InOrder == post.log = SubSeq(<<"validation">> \o Steps, 1, Len(post.log))

C30_NameVerdictAgrees ==
    Returned =>
        /\ result.nameMatched = (result.fullName # <<>>)
        /\ result.fullName # <<>> => result.fullName = providedFullName

====
